---------------------------- MODULE Spec2Model ----------------------------
(***************************************************************************)
(* Input selection for sender and issuer features (iota.rs client).        *)
(*                                                                         *)
(* The module models                                                       *)
(*   - Output / Address / InputSigningData as records,                     *)
(*   - alias_state_transition (the Alias Transition Classifier),           *)
(*   - get_required_addresses_for_sender_and_issuer (the Collector),       *)
(*   - select_inputs_for_sender_and_issuer (the Candidate Matcher), one    *)
(*     step per iteration of its 'addresses_loop.                          *)
(*   - get_inputs_for_sender_and_issuer (the Ledger Fallback Resolver),    *)
(*     one step per required address, with its collaborator requests.      *)
(***************************************************************************)
EXTENDS Integers, Sequences, FiniteSets, TLC

(***************************************************************************)
(* Bounds of the model.                                                    *)
(***************************************************************************)
\* longest list of new outputs handed to the matcher
MaxOutputs == 2
\* longest candidate pool
MaxPool == 2
\* longest selection already present when the matcher is entered
MaxSelected == 1
\* largest current time (u32 in the code); expirations of the ledger are at 1
MaxTime == 1
\* longest list of known chain inputs handed to the ledger fallback resolver
MaxKnown == 1

(***************************************************************************)
(* Values.                                                                 *)
(***************************************************************************)
\* AliasId::null() / NftId::null(): the all-zero identifier
NullId == 0

\* Address: tagged union, equality by kind and identifier
Ed25519(i) == <<"Ed25519", i>>
AliasAddress(id) == <<"Alias", id>>
NftAddress(id) == <<"Nft", id>>
\* Option<Address>::None, Option<&ExpirationUnlockCondition>::None
NoAddress == <<"None", 0>>
NoExpiration == [present |-> FALSE, return_address |-> NoAddress, timestamp |-> 0]
Expiration(ret, ts) == [present |-> TRUE, return_address |-> ret, timestamp |-> ts]

\* Option<bool>
None == <<"None", FALSE>>
Some(b) == <<"Some", b>>
unwrap_or(opt, default) == IF opt[1] = "Some" THEN opt[2] ELSE default

\* Output: one record shape for the five kinds; a field a kind does not
\* have holds the absent value.
Output(k, addr, exp, id, idx, sc, gov, snd, iss) ==
    [kind |-> k, address |-> addr, expiration |-> exp, chain_id |-> id,
     state_index |-> idx, state_controller |-> sc, governor |-> gov,
     sender |-> snd, issuer |-> iss]
BasicOutput(addr, exp, snd) ==
    Output("Basic", addr, exp, NullId, 0, NoAddress, NoAddress, snd, NoAddress)
AliasOutput(id, idx, sc, gov, snd, iss) ==
    Output("Alias", NoAddress, NoExpiration, id, idx, sc, gov, snd, iss)
NftOutput(id, addr, exp, snd, iss) ==
    Output("Nft", addr, exp, id, 0, NoAddress, NoAddress, snd, iss)
FoundryOutput(alias_addr) ==
    Output("Foundry", alias_addr, NoExpiration, NullId, 0, NoAddress, NoAddress,
           NoAddress, NoAddress)
TreasuryOutput ==
    Output("Treasury", NoAddress, NoExpiration, NullId, 0, NoAddress, NoAddress,
           NoAddress, NoAddress)

(***************************************************************************)
(* The ledger the inputs come from: one output per OutputId.               *)
(***************************************************************************)
Ledger ==
    <<  \* 1: basic output of Ed25519(1); from time 1 on it is Ed25519(2)'s
        BasicOutput(Ed25519(1), Expiration(Ed25519(2), 1), NoAddress),
        \* 2: basic output owned by alias 1
        BasicOutput(AliasAddress(1), NoExpiration, NoAddress),
        \* 3: alias 1
        AliasOutput(1, 0, Ed25519(1), Ed25519(2), NoAddress, NoAddress),
        \* 4: a just created nft, its identifier still null, owned by alias 1
        NftOutput(NullId, AliasAddress(1), NoExpiration, NoAddress, NoAddress),
        \* 5: a just created alias, its identifier still null
        AliasOutput(NullId, 0, Ed25519(2), Ed25519(1), NoAddress, NoAddress),
        \* 6: a foundry of alias 1
        FoundryOutput(AliasAddress(1)),
        \* 7: a second basic output of Ed25519(1), without expiration
        BasicOutput(Ed25519(1), NoExpiration, NoAddress),
        \* 8: nft 2, owned by the nft of OutputId 4, NftAddress(IdFromOutputId(4)),
        \* which alias 1 owns
        NftOutput(2, NftAddress(5), NoExpiration, NoAddress, NoAddress)
    >>
OutputIds == 1..Len(Ledger)

\* AliasId::from(&OutputId) / NftId::from(&OutputId): a hash of the OutputId,
\* here a fixed injective map of the OutputIds into the non-null identifiers
IdFromOutputId(output_id) == (output_id % Len(Ledger)) + 1

\* InputSigningData { output, output_metadata (the OutputId), .. } of an
\* OutputId. A list of InputSigningData is held as the list of their
\* OutputIds: the data of an OutputId never changes.
InputSigningData(oid) == [output_id |-> oid, output |-> Ledger[oid]]
AllInputs == {InputSigningData(oid) : oid \in OutputIds}
\* the inputs the wallet holds: what a candidate pool is drawn from
WalletOutputIds == {1, 3, 4}

\* the new outputs the matcher is run on
MatcherOutputs ==
    {   BasicOutput(Ed25519(1), NoExpiration, Ed25519(1)),
        BasicOutput(Ed25519(1), NoExpiration, AliasAddress(1)),
        \* alias 1 with its state index unchanged (governance transition)
        AliasOutput(1, 0, Ed25519(1), Ed25519(1), Ed25519(2), NoAddress),
        \* alias 1 with its state index raised (state transition)
        AliasOutput(1, 1, Ed25519(1), Ed25519(1), NoAddress, NoAddress),
        \* a new alias with a sender and an issuer
        AliasOutput(NullId, 0, Ed25519(1), Ed25519(1),
                    NftAddress(IdFromOutputId(4)), Ed25519(2))
    }

\* the new outputs the Collector and the classifier are run on
NewOutputs ==
    MatcherOutputs
    \cup {BasicOutput(Ed25519(1), NoExpiration, Ed25519(2))}
    \cup {AliasOutput(id, 0, Ed25519(1), Ed25519(1), NoAddress, Ed25519(1)) :
            id \in {NullId, 1}}
    \cup {AliasOutput(IdFromOutputId(5), idx, Ed25519(1), Ed25519(1), NoAddress, NoAddress) :
            idx \in {0, 1}}
    \cup {NftOutput(id, Ed25519(1), NoExpiration, NoAddress, Ed25519(1)) :
            id \in {NullId, IdFromOutputId(4)}}
    \cup {FoundryOutput(AliasAddress(1)), TreasuryOutput}

\* sequences over S of length at most n
SeqUpTo(S, n) == UNION {[1..k -> S] : k \in 0..n}
Range(s) == {s[i] : i \in 1..Len(s)}
OutputIdsOf(sel) == {InputSigningData(sel[i]).output_id : i \in 1..Len(sel)}
Distinct(sel) == \A i, j \in 1..Len(sel) : sel[i] = sel[j] => i = j


(***************************************************************************)
(* Unlock rules of an output.                                              *)
(***************************************************************************)
\* mutant: the return address takes over only after the timestamp
return_address_expired_after(exp, timestamp) ==
    IF timestamp > exp.timestamp THEN exp.return_address ELSE NoAddress

\* ExpirationUnlockCondition::return_address_expired: Option<&Address>
return_address_expired(exp, timestamp) ==
    IF timestamp >= exp.timestamp THEN exp.return_address ELSE NoAddress

\* UnlockConditions::locked_address: the return address of an expired
\* expiration, otherwise the address of the address unlock condition
locked_address(output, current_time) ==
    IF output.expiration.present
          /\ return_address_expired(output.expiration, current_time) # NoAddress
    THEN return_address_expired(output.expiration, current_time)
    ELSE output.address

\* AliasOutput::alias_id_non_null / NftId::or_from_output_id
chain_id_non_null(output, output_id) ==
    IF output.chain_id = NullId THEN IdFromOutputId(output_id) ELSE output.chain_id

\* Output::required_and_unlocked_address: <<the address that has to be
\* unlocked to consume the output, the alias or nft address that consuming
\* it unlocks (NoAddress if none)>>
required_and_unlocked_address(output, current_time, output_id, alias_transition) ==
    CASE output.kind = "Alias" ->
            IF alias_transition
            THEN <<output.state_controller,
                   AliasAddress(chain_id_non_null(output, output_id))>>
            ELSE <<output.governor, NoAddress>>
      [] output.kind = "Basic" -> <<locked_address(output, current_time), NoAddress>>
      [] output.kind = "Nft" ->
            <<locked_address(output, current_time),
              NftAddress(chain_id_non_null(output, output_id))>>
      [] OTHER -> <<output.address, NoAddress>>

(***************************************************************************)
(* alias_state_transition: the Alias Transition Classifier.                *)
(***************************************************************************)
RECURSIVE FindMapAlias(_, _, _, _)
\* outputs.iter().find_map(..): the first Alias output with the identifier
\* decides; None when the iterator ends
FindMapAlias(outs, i, alias_id, input_state_index) ==
    IF i > Len(outs) THEN None
    ELSE IF outs[i].kind = "Alias" /\ outs[i].chain_id = alias_id
         THEN IF outs[i].state_index = input_state_index THEN Some(FALSE) ELSE Some(TRUE)
         ELSE FindMapAlias(outs, i + 1, alias_id, input_state_index)

RECURSIVE FindMapAliasLast(_, _, _, _)
\* mutant: the last Alias output with the identifier decides
FindMapAliasLast(outs, i, alias_id, input_state_index) ==
    IF i < 1 THEN None
    ELSE IF outs[i].kind = "Alias" /\ outs[i].chain_id = alias_id
         THEN IF outs[i].state_index = input_state_index THEN Some(FALSE) ELSE Some(TRUE)
         ELSE FindMapAliasLast(outs, i - 1, alias_id, input_state_index)

\* mutant: compares the stored identifier, null or not
alias_state_transition_stored_id(input_signing_data, outs) ==
    IF input_signing_data.output.kind = "Alias"
    THEN FindMapAlias(outs, 1, input_signing_data.output.chain_id,
                      input_signing_data.output.state_index)
    ELSE None

\* mutant: find_map from the back
alias_state_transition_last(input_signing_data, outs) ==
    IF input_signing_data.output.kind = "Alias"
    THEN FindMapAliasLast(outs, Len(outs),
                          chain_id_non_null(input_signing_data.output,
                                            input_signing_data.output_id),
                          input_signing_data.output.state_index)
    ELSE None

alias_state_transition(input_signing_data, outs) ==
    IF input_signing_data.output.kind = "Alias"
    THEN FindMapAlias(outs, 1,
                      chain_id_non_null(input_signing_data.output,
                                        input_signing_data.output_id),
                      input_signing_data.output.state_index)
    ELSE None

(***************************************************************************)
(* get_required_addresses_for_sender_and_issuer: the Collector.            *)
(***************************************************************************)
\* the addresses of one selected input that the Collector counts as
\* unlocked: None is "no state transition"
CollectorUnlocks(input_signing_data, outs, current_time) ==
    LET r == required_and_unlocked_address(
                 input_signing_data.output, current_time, input_signing_data.output_id,
                 unwrap_or(alias_state_transition(input_signing_data, outs), FALSE))
    IN  {r[1]} \cup (IF r[2] # NoAddress THEN {r[2]} ELSE {})

\* unlocked_addresses after the loop over selected_inputs
unlocked_addresses(selected, outs, current_time) ==
    UNION {CollectorUnlocks(InputSigningData(selected[i]), outs, current_time) :
               i \in 1..Len(selected)}

\* utxo_chain_creation of one output
utxo_chain_creation(output) ==
    CASE output.kind = "Alias" -> output.chain_id = NullId
      [] output.kind = "Nft" -> output.chain_id = NullId
      [] OTHER -> FALSE

RECURSIVE RequiredLoop(_, _, _, _)
\* the loop over outputs: required_sender_or_issuer_addresses after output i..
RequiredLoop(outs, i, unlocked, required) ==
    IF i > Len(outs) THEN required
    ELSE LET output == outs[i]
             with_sender ==
                 IF output.sender # NoAddress
                       /\ output.sender \notin required
                       /\ output.sender \notin unlocked
                 THEN required \cup {output.sender}
                 ELSE required
             with_issuer ==
                 IF utxo_chain_creation(output)
                       /\ output.issuer # NoAddress
                       /\ output.issuer \notin with_sender
                       /\ output.issuer \notin unlocked
                 THEN with_sender \cup {output.issuer}
                 ELSE with_sender
         IN  RequiredLoop(outs, i + 1, unlocked, with_issuer)

RECURSIVE RequiredLoopAnyIssuer(_, _, _, _)
\* mutant: the issuer is required whatever the chain identifier is
RequiredLoopAnyIssuer(outs, i, unlocked, required) ==
    IF i > Len(outs) THEN required
    ELSE LET output == outs[i]
             with_sender ==
                 IF output.sender # NoAddress /\ output.sender \notin unlocked
                 THEN required \cup {output.sender}
                 ELSE required
             with_issuer ==
                 IF output.issuer # NoAddress /\ output.issuer \notin unlocked
                 THEN with_sender \cup {output.issuer}
                 ELSE with_sender
         IN  RequiredLoopAnyIssuer(outs, i + 1, unlocked, with_issuer)

RECURSIVE RequiredLoopIssuerUnchecked(_, _, _, _)
\* mutant: the issuer is added without looking at unlocked_addresses
RequiredLoopIssuerUnchecked(outs, i, unlocked, required) ==
    IF i > Len(outs) THEN required
    ELSE LET output == outs[i]
             with_sender ==
                 IF output.sender # NoAddress /\ output.sender \notin unlocked
                 THEN required \cup {output.sender}
                 ELSE required
             with_issuer ==
                 IF utxo_chain_creation(output) /\ output.issuer # NoAddress
                 THEN with_sender \cup {output.issuer}
                 ELSE with_sender
         IN  RequiredLoopIssuerUnchecked(outs, i + 1, unlocked, with_issuer)

RECURSIVE RequiredLoopSenderElseIssuer(_, _, _, _)
\* mutant: the issuer is looked at only when the output has no sender
RequiredLoopSenderElseIssuer(outs, i, unlocked, required) ==
    IF i > Len(outs) THEN required
    ELSE LET output == outs[i]
             next ==
                 IF output.sender # NoAddress
                 THEN IF output.sender \notin unlocked
                      THEN required \cup {output.sender} ELSE required
                 ELSE IF utxo_chain_creation(output) /\ output.issuer # NoAddress
                            /\ output.issuer \notin unlocked
                      THEN required \cup {output.issuer} ELSE required
         IN  RequiredLoopSenderElseIssuer(outs, i + 1, unlocked, next)

\* mutant of the Collector: see RequiredLoopSenderElseIssuer
get_required_addresses_sender_else_issuer(selected, outs, current_time) ==
    RequiredLoopSenderElseIssuer(outs, 1, unlocked_addresses(selected, outs, current_time), {})

\* mutant of the Collector: see RequiredLoopAnyIssuer
get_required_addresses_any_issuer(selected, outs, current_time) ==
    RequiredLoopAnyIssuer(outs, 1, unlocked_addresses(selected, outs, current_time), {})

\* mutant of the Collector: see RequiredLoopIssuerUnchecked
get_required_addresses_issuer_unchecked(selected, outs, current_time) ==
    RequiredLoopIssuerUnchecked(outs, 1, unlocked_addresses(selected, outs, current_time), {})

get_required_addresses_for_sender_and_issuer(selected, outs, current_time) ==
    RequiredLoop(outs, 1, unlocked_addresses(selected, outs, current_time), {})

(***************************************************************************)
(* select_inputs_for_sender_and_issuer: the Candidate Matcher.             *)
(***************************************************************************)
VARIABLES
    outputs,                     \* the new outputs (&mut Vec<Output>)
    inputs,                      \* the candidate pool, in iteration order (OutputIds)
    selected_inputs,             \* &mut Vec<InputSigningData> (OutputIds)
    selected_inputs_output_ids,  \* &mut HashSet<OutputId>
    current_time,
    pc,                          \* "idle", "addresses_loop" or "returned"
    required_addresses,          \* what the 'addresses_loop has still to visit
    result,                      \* Running, Ok or MissingInput(address)
    entry_selected_inputs,       \* selected_inputs when the call was made
    entry_required_addresses,    \* the Collector's set, as computed at entry
    visited,                     \* the required addresses visited, in order
    pushed,                      \* the inputs pushed by this call, in order
    \* get_inputs_for_sender_and_issuer (the ledger fallback resolver)
    utxo_chain_inputs,           \* &[InputSigningData]: the known chain inputs (OutputIds)
    secret_manager,              \* self.secret_manager is Some(..)
    required_inputs,             \* Vec<InputSigningData> built by the loop over the addresses
    utxo_chains,                 \* what the chain expansion has fetched so far
    expand_pos,                  \* the next input the chain expansion looks at
    requests,                    \* the collaborator requests issued, with their outcomes
    steps,                       \* one record per required address visited
    returned,                    \* what the caller receives
    first_call,                  \* what an earlier call with the same arguments did
    first_match,                 \* what an earlier call of the matcher did
    \* ExpirationUnlockCondition
    construction,                \* how a condition was constructed, from what, with what result
    condition_dto,               \* the ExpirationUnlockConditionDto made from the condition
    round_trip,                  \* the result of converting condition_dto back
    expired,                     \* a call of return_address_expired and its result
    \* StrongholdClient
    key,                         \* Arc<Mutex<Option<Zeroizing<Vec<u8>>>>>
    timeout,                     \* Option<Duration> is Some(..)
    timeout_task,                \* Arc<Mutex<Option<JoinHandle<()>>>>: the task's number
    tasks,                       \* the key clearing tasks spawned so far, by number
    store,                       \* the Stronghold store: a record or None per location
    call,                        \* the method the caller is in and its locals
    builder,                     \* what the client was built with
    last,                        \* the last method that has returned, and what it saw
    cleared,                     \* clear_key has returned and set_password was not called since
    model_map,                   \* the map the inserts and deletes so far describe
    same_key,                    \* the database methods have all run under one key
    snapshot_path,               \* Option<PathBuf>
    snapshot_loaded,             \* bool
    snapshot_reads               \* the paths Stronghold::read_snapshot has read with Ok

expiration_vars == <<construction, condition_dto, round_trip, expired>>

stronghold_vars == <<key, timeout, timeout_task, tasks, store, call, builder, last,
                     cleared, model_map, same_key>>

snapshot_vars == <<snapshot_path, snapshot_loaded, snapshot_reads>>

\* what input selection does not touch
outside_selection == <<expiration_vars, stronghold_vars, snapshot_vars>>

\* what neither the matcher nor a call of the resolver writes
other_vars == <<first_call, first_match, outside_selection>>

resolver_vars == <<utxo_chain_inputs, secret_manager, required_inputs, utxo_chains,
                   expand_pos, requests, steps, returned, other_vars>>

vars == <<outputs, inputs, selected_inputs, selected_inputs_output_ids, current_time,
          pc, required_addresses, result, entry_selected_inputs,
          entry_required_addresses, visited, pushed, utxo_chain_inputs, secret_manager,
          required_inputs, utxo_chains, expand_pos, requests, steps, returned,
          other_vars>>

Running == <<"Running", NoAddress>>
Ok == <<"Ok", NoAddress>>
MissingInput(address) == <<"MissingInput", address>>

\* mutant: the secondary (alias or nft) address is not compared
AddressMatchesRequiredOnly(input_signing_data, outs, time, required_address) ==
    LET r == required_and_unlocked_address(
                 input_signing_data.output, time, input_signing_data.output_id,
                 unwrap_or(alias_state_transition(input_signing_data, outs), TRUE))
    IN  r[1] = required_address

\* mutant: the matcher takes an unclassified alias input as the Collector
\* does, as "no state transition"
AddressMatchesDefaultFalse(input_signing_data, outs, time, required_address) ==
    LET r == required_and_unlocked_address(
                 input_signing_data.output, time, input_signing_data.output_id,
                 unwrap_or(alias_state_transition(input_signing_data, outs), FALSE))
    IN  \/ r[1] = required_address
        \/ r[2] # NoAddress /\ r[2] = required_address

\* the two comparisons the matcher makes for one input, after classifying it
\* with None as "state transition"
AddressMatches(input_signing_data, outs, time, required_address) ==
    LET r == required_and_unlocked_address(
                 input_signing_data.output, time, input_signing_data.output_id,
                 unwrap_or(alias_state_transition(input_signing_data, outs), TRUE))
    IN  \/ r[1] = required_address
        \/ r[2] # NoAddress /\ r[2] = required_address

\* first loop: some already selected input matches
FoundInSelected(selected, outs, time, required_address) ==
    \E i \in 1..Len(selected) :
        AddressMatches(InputSigningData(selected[i]), outs, time, required_address)

\* second loop: the pool positions that are not skipped and match
PoolMatches(pool, ids, outs, time, required_address) ==
    {i \in 1..Len(pool) :
        /\ InputSigningData(pool[i]).output_id \notin ids
        /\ AddressMatches(InputSigningData(pool[i]), outs, time, required_address)}

Min(S) == CHOOSE x \in S : \A y \in S : x <= y

\* mutant: the new input is put in front of the selection
PushFront(selected, input_signing_data) == <<input_signing_data>> \o selected

\* selected_inputs.push(input_signing_data.clone())
Push(selected, input_signing_data) == Append(selected, input_signing_data)

\* mutant: no look at the already selected inputs or at the dedup set: the
\* first matching pool input is pushed
MatchAddressPoolOnly(required_address, selected, ids, pool, outs, time) ==
    LET hits == {i \in 1..Len(pool) :
                    AddressMatches(InputSigningData(pool[i]), outs, time, required_address)}
    IN  IF hits # {}
        THEN LET first == pool[Min(hits)]
             IN  [found |-> TRUE, pushed |-> <<first>>,
                  selected |-> Push(selected, first),
                  ids |-> ids \cup {InputSigningData(first).output_id}]
        ELSE [found |-> FALSE, pushed |-> <<>>, selected |-> selected, ids |-> ids]

\* one iteration of 'addresses_loop: what it finds and what it leaves in the
\* selection and in the dedup set
MatchAddress(required_address, selected, ids, pool, outs, time) ==
    IF FoundInSelected(selected, outs, time, required_address)
    THEN [found |-> TRUE, pushed |-> <<>>, selected |-> selected, ids |-> ids]
    ELSE LET hits == PoolMatches(pool, ids, outs, time, required_address)
         IN  IF hits # {}
             THEN LET first == pool[Min(hits)]
                  IN  [found |-> TRUE, pushed |-> <<first>>,
                       selected |-> Push(selected, first),
                       ids |-> ids \cup {InputSigningData(first).output_id}]
             ELSE [found |-> FALSE, pushed |-> <<>>, selected |-> selected, ids |-> ids]

\* injective sequences over S of length at most n
InjSeqUpTo(S, n) == {s \in SeqUpTo(S, n) : \A i, j \in 1..Len(s) : s[i] = s[j] => i = j}

\* the result of get_inputs_for_sender_and_issuer: nothing yet, Ok(list)
\* or Err(error)
NotReturned == [status |-> "Running", error |-> "None", inputs |-> <<>>]
RetOk(list) == [status |-> "Ok", error |-> "None", inputs |-> list]
RetErr(e) == [status |-> "Err", error |-> e, inputs |-> <<>>]

\* the locals of the resolver before it has run
ResolverNotCalled ==
    /\ required_inputs = <<>>
    /\ utxo_chains = <<>>
    /\ expand_pos = 1
    /\ requests = <<>>
    /\ steps = <<>>
    /\ returned = NotReturned

\* there was no earlier call
NoFirstCall == [returned |-> NotReturned, requests |-> <<>>, steps |-> <<>>]

\* no condition has been constructed
NotConstructed == [by |-> "none", from |-> <<>>, result |-> <<"None">>]
NoDto == <<"None">>
NotConverted == <<"None">>
NotAsked == [asked |-> FALSE, timestamp |-> 0, result |-> NoAddress]
ExpirationNotCalled ==
    /\ construction = NotConstructed
    /\ condition_dto = NoDto
    /\ round_trip = NotConverted
    /\ expired = NotAsked

\* the keys of the database
RecordKeys == {1, 2}
\* location_from_key
location_from_key(k) == <<k, k>>
Locations == {location_from_key(k) : k \in RecordKeys}

\* the caller is in no method
Idle == [pc |-> "idle", k |-> 0, v |-> 0, old_value |-> None, keys |-> <<>>,
         task |-> 0, was |-> "none", raced |-> FALSE]
\* no method has returned
NoOp == [op |-> "none", k |-> 0, ret |-> None, task |-> 0, raced |-> FALSE,
         read |-> FALSE]
NotCleared == [on |-> FALSE, task |-> 0, was |-> "none"]

\* StrongholdClient::default(), before the builder's setters are applied
StrongholdNotBuilt ==
    /\ key = None
    /\ timeout = FALSE
    /\ timeout_task = None
    /\ tasks = <<>>
    /\ store = [location \in Locations |-> None]
    /\ call = [Idle EXCEPT !.pc = "unbuilt"]
    /\ builder = None
    /\ last = NoOp
    /\ cleared = NotCleared
    /\ model_map = [k \in RecordKeys |-> None]
    /\ same_key = [ok |-> TRUE, key |-> None]

\* StrongholdClient::default(): no snapshot path, nothing loaded
SnapshotNotLoaded ==
    /\ snapshot_path = None
    /\ snapshot_loaded = FALSE
    /\ snapshot_reads = <<>>

\* the matcher has not been called before
NoFirstMatch == [kind |-> "none", result |-> Running, selected_inputs |-> <<>>,
                 selected_inputs_output_ids |-> {}, visited |-> <<>>, pushed |-> <<>>]

\* the other components are as they are built
OthersNotCalled ==
    /\ first_call = NoFirstCall
    /\ first_match = NoFirstMatch
    /\ ExpirationNotCalled
    /\ StrongholdNotBuilt
    /\ SnapshotNotLoaded

\* what no call has touched yet
NotCalled ==
    /\ selected_inputs_output_ids = OutputIdsOf(selected_inputs)
    /\ current_time \in 0..MaxTime
    /\ pc = "idle"
    /\ required_addresses = {}
    /\ result = Running
    /\ entry_selected_inputs = selected_inputs
    /\ entry_required_addresses = {}
    /\ visited = <<>>
    /\ pushed = <<>>
    /\ ResolverNotCalled
    /\ OthersNotCalled

\* a call of the matcher: any outputs, pool and selection within the bounds
Init ==
    /\ outputs \in SeqUpTo(MatcherOutputs, MaxOutputs)
    /\ inputs \in SeqUpTo(WalletOutputIds, MaxPool)
    /\ selected_inputs \in InjSeqUpTo(WalletOutputIds, MaxSelected)
    /\ utxo_chain_inputs = <<>>
    /\ secret_manager = FALSE
    /\ NotCalled

\* a call of the Collector alone: there is no pool
InitCollector ==
    /\ outputs \in SeqUpTo(NewOutputs, MaxOutputs)
    /\ inputs = <<>>
    /\ selected_inputs \in InjSeqUpTo(OutputIds, MaxSelected)
    /\ utxo_chain_inputs = <<>>
    /\ secret_manager = FALSE
    /\ NotCalled

\* get_required_addresses_for_sender_and_issuer, called on its own
Collect ==
    /\ pc = "idle"
    /\ pc' = "collected"
    /\ entry_required_addresses' =
           get_required_addresses_for_sender_and_issuer(selected_inputs, outputs, current_time)
    /\ UNCHANGED <<outputs, inputs, selected_inputs, selected_inputs_output_ids,
                   current_time, required_addresses, result, entry_selected_inputs,
                   visited, pushed>>
    /\ UNCHANGED resolver_vars

\* the call up to the head of the loop: the Collector's set is computed once
Call ==
    /\ pc = "idle"
    /\ pc' = "addresses_loop"
    /\ required_addresses' =
           get_required_addresses_for_sender_and_issuer(selected_inputs, outputs, current_time)
    /\ entry_required_addresses' = required_addresses'
    /\ UNCHANGED <<outputs, inputs, selected_inputs, selected_inputs_output_ids,
                   current_time, result, entry_selected_inputs, visited, pushed>>
    /\ UNCHANGED resolver_vars

\* an iteration that finds the address: continue 'addresses_loop
Found(required_address) ==
    LET m == MatchAddress(required_address, selected_inputs, selected_inputs_output_ids,
                          inputs, outputs, current_time)
    IN  /\ pc = "addresses_loop"
        /\ required_address \in required_addresses
        /\ m.found
        /\ selected_inputs' = m.selected
        /\ selected_inputs_output_ids' = m.ids
        /\ required_addresses' = required_addresses \ {required_address}
        /\ visited' = Append(visited, required_address)
        /\ pushed' = pushed \o m.pushed
        /\ UNCHANGED <<outputs, inputs, current_time, pc, result,
                       entry_selected_inputs, entry_required_addresses>>
        /\ UNCHANGED resolver_vars

\* mutant: the failing call takes back what it pushed
MissingRollback(required_address) ==
    LET m == MatchAddress(required_address, selected_inputs, selected_inputs_output_ids,
                          inputs, outputs, current_time)
    IN  /\ pc = "addresses_loop"
        /\ required_address \in required_addresses
        /\ ~m.found
        /\ pc' = "returned"
        /\ result' = MissingInput(required_address)
        /\ visited' = Append(visited, required_address)
        /\ selected_inputs' = entry_selected_inputs
        /\ selected_inputs_output_ids' = OutputIdsOf(entry_selected_inputs)
        /\ UNCHANGED <<outputs, inputs, current_time, required_addresses,
                       entry_selected_inputs, entry_required_addresses, pushed>>
        /\ UNCHANGED resolver_vars

\* mutant: the address that has no input is skipped
MissingSkipped(required_address) ==
    LET m == MatchAddress(required_address, selected_inputs, selected_inputs_output_ids,
                          inputs, outputs, current_time)
    IN  /\ pc = "addresses_loop"
        /\ required_address \in required_addresses
        /\ ~m.found
        /\ required_addresses' = required_addresses \ {required_address}
        /\ visited' = Append(visited, required_address)
        /\ UNCHANGED <<outputs, inputs, selected_inputs, selected_inputs_output_ids,
                       current_time, pc, result, entry_selected_inputs,
                       entry_required_addresses, pushed>>
        /\ UNCHANGED resolver_vars

\* an iteration that finds nothing: return Err(Error::MissingInput(..))
Missing(required_address) ==
    LET m == MatchAddress(required_address, selected_inputs, selected_inputs_output_ids,
                          inputs, outputs, current_time)
    IN  /\ pc = "addresses_loop"
        /\ required_address \in required_addresses
        /\ ~m.found
        /\ pc' = "returned"
        /\ result' = MissingInput(required_address)
        /\ visited' = Append(visited, required_address)
        /\ UNCHANGED <<outputs, inputs, selected_inputs, selected_inputs_output_ids,
                       current_time, required_addresses, entry_selected_inputs,
                       entry_required_addresses, pushed>>
        /\ UNCHANGED resolver_vars

\* the iterator is exhausted: Ok(())
ReturnOk ==
    /\ pc = "addresses_loop"
    /\ required_addresses = {}
    /\ pc' = "returned"
    /\ result' = Ok
    /\ UNCHANGED <<outputs, inputs, selected_inputs, selected_inputs_output_ids,
                   current_time, required_addresses, entry_selected_inputs,
                   entry_required_addresses, visited, pushed>>
    /\ UNCHANGED resolver_vars

Next ==
    \/ Call
    \/ \E a \in required_addresses : Found(a)
    \/ \E a \in required_addresses : Missing(a)
    \/ ReturnOk

Spec == Init /\ [][Next]_vars

SpecCollector == InitCollector /\ [][Collect]_vars

(***************************************************************************)
(* Properties of the Collector and of the classifier (SpecCollector).      *)
(***************************************************************************)
Called == pc # "idle"

\* the addresses of the sender features of the outputs
SenderAddresses(outs) ==
    {outs[i].sender : i \in 1..Len(outs)} \ {NoAddress}
\* the addresses of the issuer features of the alias and nft outputs whose
\* chain identifier is null
NewChainIssuerAddresses(outs) ==
    {outs[i].issuer : i \in {j \in 1..Len(outs) :
        outs[j].kind \in {"Alias", "Nft"} /\ outs[j].chain_id = NullId}} \ {NoAddress}

\* C1: the set the Collector returns holds no address of the unlocked set it
\* computed from the selection.
C1_RequiredDisjointFromUnlocked ==
    Called =>
        entry_required_addresses
            \cap unlocked_addresses(entry_selected_inputs, outputs, current_time) = {}

\* C1 witness: the Collector has run on a selection that unlocks the issuer
\* of a new chain and the sender of another output is still required.
C1_Witness ==
    /\ pc = "collected"
    /\ entry_required_addresses # {}
    /\ NewChainIssuerAddresses(outputs)
          \cap unlocked_addresses(entry_selected_inputs, outputs, current_time) # {}

\* C2: the Collector's result is exactly the sender addresses and the issuer
\* addresses of new chains, minus the unlocked set; a sender that no selected
\* input unlocks is in the result.
C2_RequiredIsSendersAndNewChainIssuersMinusUnlocked ==
    Called =>
        /\ entry_required_addresses =
               (SenderAddresses(outputs) \cup NewChainIssuerAddresses(outputs))
                   \ unlocked_addresses(entry_selected_inputs, outputs, current_time)
        /\ \A i \in 1..Len(outputs) :
               (/\ outputs[i].sender # NoAddress
                /\ \A j \in 1..Len(entry_selected_inputs) :
                       outputs[i].sender \notin
                           CollectorUnlocks(InputSigningData(entry_selected_inputs[j]),
                                            outputs, current_time))
               => outputs[i].sender \in entry_required_addresses

\* C2 witness: an output with a sender and an issuer on a new chain, a
\* selection that unlocks one of the two, and the other one required.
C2_Witness ==
    /\ pc = "collected"
    /\ entry_selected_inputs # <<>>
    /\ \E i \in 1..Len(outputs) :
           /\ outputs[i].sender \in entry_required_addresses
           /\ outputs[i].issuer # NoAddress
           /\ outputs[i].chain_id = NullId
           /\ outputs[i].issuer
                 \in unlocked_addresses(entry_selected_inputs, outputs, current_time)

\* C3: an issuer address is required only because of an alias or nft output
\* whose chain identifier is null; a single alias output with issuer A and
\* an empty selection gives {A} when its identifier is null and {} otherwise.
C3_IssuerRequiredOnlyForNewChains ==
    Called =>
        /\ \A a \in entry_required_addresses :
               \/ a \in SenderAddresses(outputs)
               \/ \E i \in 1..Len(outputs) :
                      /\ outputs[i].kind \in {"Alias", "Nft"}
                      /\ outputs[i].chain_id = NullId
                      /\ outputs[i].issuer = a
        /\ (/\ Len(outputs) = 1
            /\ outputs[1].kind = "Alias"
            /\ outputs[1].sender = NoAddress
            /\ outputs[1].issuer # NoAddress
            /\ entry_selected_inputs = <<>>)
           => entry_required_addresses =
                  IF outputs[1].chain_id = NullId THEN {outputs[1].issuer} ELSE {}

\* C3 witness: the Collector has run on one alias output that continues a
\* chain and carries an issuer, with nothing selected.
C3_Witness ==
    /\ pc = "collected"
    /\ Len(outputs) = 1
    /\ outputs[1].kind = "Alias"
    /\ outputs[1].chain_id # NullId
    /\ outputs[1].issuer # NoAddress
    /\ entry_selected_inputs = <<>>
    /\ entry_required_addresses = {}

\* the positions of the alias outputs with identifier id
AliasOutputsWithId(outs, id) ==
    {i \in 1..Len(outs) : outs[i].kind = "Alias" /\ outs[i].chain_id = id}

\* C4 as stated: any alias output with the input's identifier and another
\* state index gives Some(true), any with the same state index Some(false),
\* none gives None; an input that is no alias gives None.
C4_AnyOutputWithIdDecides ==
    \A isd \in AllInputs :
        LET X == chain_id_non_null(isd.output, isd.output_id)
            same == AliasOutputsWithId(outputs, X)
            got == alias_state_transition(isd, outputs)
        IN  IF isd.output.kind = "Alias"
            THEN /\ (\E i \in same : outputs[i].state_index # isd.output.state_index)
                        => got = Some(TRUE)
                 /\ (\E i \in same : outputs[i].state_index = isd.output.state_index)
                        => got = Some(FALSE)
                 /\ same = {} => got = None
            ELSE got = None

\* C4 amended: the first alias output with the input's identifier decides:
\* Some(true) when its state index differs from the input's, Some(false)
\* when it is the same; None when no alias output has the identifier, and
\* None for an input that is no alias.
C4_FirstOutputWithIdDecides ==
    \A isd \in AllInputs :
        LET X == chain_id_non_null(isd.output, isd.output_id)
            same == AliasOutputsWithId(outputs, X)
            got == alias_state_transition(isd, outputs)
        IN  IF isd.output.kind = "Alias"
            THEN IF same = {}
                 THEN got = None
                 ELSE LET first == CHOOSE i \in same : \A j \in same : i <= j
                      IN  got = Some(outputs[first].state_index # isd.output.state_index)
            ELSE got = None

\* C4 witness: the Collector has classified a selected alias input whose
\* identifier is still null, and two outputs carry its identifier with
\* different state indexes.
C4_Witness ==
    /\ pc = "collected"
    /\ \E k \in 1..Len(entry_selected_inputs) :
           LET isd == InputSigningData(entry_selected_inputs[k])
               same == AliasOutputsWithId(outputs,
                           chain_id_non_null(isd.output, isd.output_id))
           IN  /\ isd.output.kind = "Alias"
               /\ isd.output.chain_id = NullId
               /\ \E i, j \in same : outputs[i].state_index # outputs[j].state_index
               /\ alias_state_transition(isd, outputs) = Some(TRUE)

(***************************************************************************)
(* Properties of the matcher (Spec).                                       *)
(***************************************************************************)
Returned == pc = "returned"
Failed == Returned /\ result[1] = "MissingInput"
Succeeded == Returned /\ result = Ok

\* the required unlock address and the alias or nft address of an input, as
\* the matcher takes them: an alias input that alias_state_transition does
\* not classify counts as a state transition
CanUnlock(isd, address) ==
    LET st == IF alias_state_transition(isd, outputs) = None
              THEN TRUE
              ELSE alias_state_transition(isd, outputs)[2]
        r == required_and_unlocked_address(isd.output, current_time, isd.output_id, st)
    IN  address # NoAddress /\ (address = r[1] \/ address = r[2])

\* the selection holds the alias or nft output of the chain of an address
HoldsChainOutput(selected, address) ==
    \E i \in 1..Len(selected) :
        LET isd == InputSigningData(selected[i])
        IN  /\ isd.output.kind = address[1]
            /\ chain_id_non_null(isd.output, isd.output_id) = address[2]

\* C5: after a successful call the selection holds the chain output of every
\* alias or nft address that was required; an input that is merely owned by
\* the address does not satisfy it.
C5_ChainAddressNeedsItsChainOutput ==
    Succeeded =>
        \A a \in entry_required_addresses :
            a[1] \in {"Alias", "Nft"} => HoldsChainOutput(selected_inputs, a)

\* C6: the selection never holds an OutputId twice, whatever the pool holds.
C6_SelectionHasDistinctOutputIds ==
    Distinct(selected_inputs)

\* C6 witness: the call has returned after pushing an input that is in the
\* pool twice.
C6_Witness ==
    /\ Returned
    /\ \E i, j \in 1..Len(inputs) :
           i # j /\ inputs[i] = inputs[j] /\ inputs[i] \in Range(pushed)

\* C7: when every required address is the required or the alias/nft unlock
\* address of an input of the selection at entry or of the pool, the call
\* succeeds; with one basic output of sender A and a pool of one input that
\* A owns, the selection is that input.
C7_SucceedsWhenEveryAddressHasAnInput ==
    Returned =>
        /\ (\A a \in entry_required_addresses :
               \E oid \in Range(entry_selected_inputs) \cup Range(inputs) :
                   CanUnlock(InputSigningData(oid), a))
           => result = Ok
        /\ (/\ outputs = <<BasicOutput(Ed25519(1), NoExpiration, Ed25519(1))>>
            /\ inputs = <<1>>
            /\ entry_selected_inputs = <<>>
            /\ current_time = 0)
           => (result = Ok /\ selected_inputs = <<1>>)

\* C7 witness: a successful call whose required alias address is unlocked
\* by the alias input of the pool, beside the call of the example.
C7_Witness ==
    /\ Succeeded
    /\ \E a \in entry_required_addresses :
           /\ a[1] = "Alias"
           /\ \E oid \in Range(pushed) :
                  /\ InputSigningData(oid).output.kind = "Alias"
                  /\ CanUnlock(InputSigningData(oid), a)

\* C8: the call fails with MissingInput exactly when it reaches a required
\* address that no selected input and no pool input outside the selection
\* matches; the error names that address, which is the last one visited.
C8_MissingInputExactlyForUnmatchedAddress ==
    /\ Failed =>
           /\ visited # <<>>
           /\ result[2] = visited[Len(visited)]
           /\ result[2] \in entry_required_addresses
           /\ \A oid \in Range(selected_inputs) : ~CanUnlock(InputSigningData(oid), result[2])
           /\ \A i \in 1..Len(inputs) :
                  inputs[i] \notin selected_inputs_output_ids
                      => ~CanUnlock(InputSigningData(inputs[i]), result[2])
           /\ \A k \in 1..(Len(visited) - 1) :
                  \E oid \in Range(selected_inputs) : CanUnlock(InputSigningData(oid), visited[k])
           /\ required_addresses = entry_required_addresses \ Range(SubSeq(visited, 1, Len(visited) - 1))
    /\ (Called /\ ~Failed) =>
           \A k \in 1..Len(visited) :
               \E oid \in Range(selected_inputs) : CanUnlock(InputSigningData(oid), visited[k])
    /\ Succeeded => Range(visited) = entry_required_addresses

\* C8 witness: a call that failed on its second address while a third was
\* still to visit.
C8_Witness ==
    /\ Failed
    /\ Len(visited) >= 2
    /\ required_addresses \ {result[2]} # {}

\* C9: when the call fails, what it pushed for the addresses before the
\* failing one is still in the selection and in the dedup set.
C9_FailureKeepsWhatWasPushed ==
    Failed =>
        \A i \in 1..Len(pushed) :
            /\ pushed[i] \in Range(selected_inputs)
            /\ pushed[i] \in selected_inputs_output_ids

\* C9 witness: a failed call that had pushed an input.
C9_Witness ==
    Failed /\ pushed # <<>>

\* C10: the selection at entry is a prefix of the selection, and what
\* follows it are pool entries.
C10_SelectionOnlyGrowsAtTheEnd ==
    /\ Len(entry_selected_inputs) <= Len(selected_inputs)
    /\ SubSeq(selected_inputs, 1, Len(entry_selected_inputs)) = entry_selected_inputs
    /\ \A i \in (Len(entry_selected_inputs) + 1)..Len(selected_inputs) :
           selected_inputs[i] \in Range(inputs)
    /\ Returned => selected_inputs = entry_selected_inputs \o pushed

\* C10 witness: calls that pushed onto a selection that was not empty, one
\* that succeeded and one that failed.
C10_Witness ==
    /\ Returned
    /\ entry_selected_inputs # <<>>
    /\ Len(selected_inputs) > Len(entry_selected_inputs)

\* an alias input for which no new output carries its identifier:
\* alias_state_transition gives None for it
UnclassifiedAlias(oid) ==
    /\ Ledger[oid].kind = "Alias"
    /\ AliasOutputsWithId(outputs, chain_id_non_null(Ledger[oid], oid)) = {}
\* the state controller address and the alias address of an alias input
StateTransitionAddresses(oid) ==
    {Ledger[oid].state_controller, AliasAddress(chain_id_non_null(Ledger[oid], oid))}

\* C11: the two defaults for an unclassified alias input differ. The
\* Collector counts its governor as unlocked and neither its state controller
\* nor its alias address; the matcher, in the selection and in the pool,
\* lets it match its state controller and its alias address and not its
\* governor.
C11_DefaultsAreAsymmetric ==
    /\ Called =>
           \A k \in 1..Len(entry_selected_inputs) :
               UnclassifiedAlias(entry_selected_inputs[k]) =>
                   /\ Ledger[entry_selected_inputs[k]].governor \notin entry_required_addresses
                   /\ \A a \in StateTransitionAddresses(entry_selected_inputs[k]) :
                          (/\ a \in SenderAddresses(outputs) \cup NewChainIssuerAddresses(outputs)
                           /\ \A j \in 1..Len(entry_selected_inputs) :
                                  a \notin CollectorUnlocks(
                                                InputSigningData(entry_selected_inputs[j]),
                                                outputs, current_time))
                          => a \in entry_required_addresses
    /\ Failed =>
           \A oid \in Range(selected_inputs)
                       \cup {inputs[i] : i \in {j \in 1..Len(inputs) :
                                             inputs[j] \notin selected_inputs_output_ids}} :
               UnclassifiedAlias(oid) => result[2] \notin StateTransitionAddresses(oid)
    /\ (Succeeded /\ \A oid \in Range(selected_inputs) : UnclassifiedAlias(oid)) =>
           \A a \in entry_required_addresses :
               \E oid \in Range(selected_inputs) : a \in StateTransitionAddresses(oid)

\* C11 witness: a selected alias input that no output continues; the
\* Collector counts its governor as unlocked and still requires its state
\* controller, and the matcher then finds that address in the selection
\* and pushes no input for it.
C11_Witness ==
    /\ Succeeded
    /\ Len(entry_selected_inputs) = 1
    /\ UnclassifiedAlias(entry_selected_inputs[1])
    /\ Ledger[entry_selected_inputs[1]].state_controller \in entry_required_addresses
    /\ Ledger[entry_selected_inputs[1]].governor
          \in SenderAddresses(outputs) \cup NewChainIssuerAddresses(outputs)
    /\ \A oid \in Range(pushed) :
           Ledger[entry_selected_inputs[1]].state_controller
               \notin {locked_address(Ledger[oid], current_time)}

(***************************************************************************)
(* get_inputs_for_sender_and_issuer: the Ledger Fallback Resolver.         *)
(* One step per required address; every collaborator request a step makes  *)
(* is appended to requests with its outcome.                               *)
(***************************************************************************)
\* Option<Chain>: the derivation path of an input, its last two components
NoChain == <<"None", 0, FALSE>>
Chain(address_index, internal) == <<"Some", address_index, internal>>
\* None => Some((0, false)): the path assumed for offline signing
OfflineChain == Chain(0, FALSE)

\* the InputSigningData the resolver builds
SynthesizedInput(oid, chain, unlock_address) ==
    [output_id |-> oid, chain |-> chain, bech32_address |-> unlock_address]

\* a collaborator request and how it ended: "Ok" or the error
Request(name, arg, outcome) == [name |-> name, arg |-> arg, outcome |-> outcome]

\* the addresses the secret manager derives inside the input range, with
\* their (address_index, internal)
SeedAddresses ==
    [a \in {Ed25519(1), Ed25519(2)} |->
        IF a = Ed25519(1) THEN <<1, FALSE>> ELSE <<0, TRUE>>]

\* search_address: the index of the address, or the error of a search that
\* has gone through the range
search_address(address) ==
    IF address \in DOMAIN SeedAddresses
    THEN <<"Ok", SeedAddresses[address]>>
    ELSE <<"Err", "InputAddressNotFound">>

\* how a search_address request can end: its answer, or the secret manager
\* fails
SearchOutcomes(address) == {search_address(address), <<"Err", "SecretManager">>}

\* an output response that does not decode
Malformed == 0

\* the unspent basic outputs the node holds for an address: those with the
\* address in the address unlock condition or as expiration return address
BasicOutputsOf(address) ==
    {oid \in OutputIds :
        /\ Ledger[oid].kind = "Basic"
        /\ \/ Ledger[oid].address = address
           \/ Ledger[oid].expiration.present
                 /\ Ledger[oid].expiration.return_address = address}

\* basic_address_outputs: the node returns these outputs in any order; one
\* more entry of the response may fail to decode
BasicResponses(address) ==
    {r \in InjSeqUpTo(BasicOutputsOf(address) \cup {Malformed},
                      Cardinality(BasicOutputsOf(address)) + 1) :
        BasicOutputsOf(address) \subseteq Range(r)}

\* alias_output_id / nft_output_id: the unspent output of the chain
ChainOutputIds(kind, chain_id) ==
    {oid \in OutputIds :
        Ledger[oid].kind = kind /\ chain_id_non_null(Ledger[oid], oid) = chain_id}

\* what one step of the resolver does: the requests it issues, the inputs
\* it pushes, the error it ends the call with ("None" if it does not), and
\* the response of the basic outputs query if it got one
Outcome(reqs, push, err, got_response, response) ==
    [requests |-> reqs, push |-> push, err |-> err,
     got_response |-> got_response, response |-> response]
Fails(reqs, err) == Outcome(reqs, <<>>, err, FALSE, <<>>)

RECURSIVE LastQualifying(_, _, _, _)
\* mutant: the scan runs from the back of the response
LastQualifying(response, i, address, time) ==
    IF i > Len(response) THEN 0
    ELSE LET k == Len(response) + 1 - i
         IN  IF response[k] = Malformed THEN k
             ELSE IF required_and_unlocked_address(
                         Ledger[response[k]], time, response[k], FALSE)[1] = address
                  THEN k
                  ELSE LastQualifying(response, i + 1, address, time)

RECURSIVE FirstQualifying(_, _, _, _)
\* for output_response in address_outputs: the position at which the loop
\* ends, with a decoding error or with the first output whose required
\* unlock address is the address; 0 when the loop runs to the end
FirstQualifying(response, i, address, time) ==
    IF i > Len(response) THEN 0
    ELSE IF response[i] = Malformed THEN i
         ELSE IF required_and_unlocked_address(
                     Ledger[response[i]], time, response[i], FALSE)[1] = address
              THEN i
              ELSE FirstQualifying(response, i + 1, address, time)

\* the loop over the response of the basic outputs query
ScanBasic(reqs, response, address, address_index_internal, time) ==
    LET k == FirstQualifying(response, 1, address, time)
    IN  IF k = 0
        THEN Outcome(reqs, <<>>, "MissingInputWithEd25519Address", TRUE, response)
        ELSE IF response[k] = Malformed
             THEN Outcome(reqs, <<>>, "Decode", TRUE, response)
             ELSE Outcome(reqs,
                          <<SynthesizedInput(response[k],
                                Chain(address_index_internal[1], address_index_internal[2]),
                                address)>>,
                          "None", TRUE, response)

\* mutant: without a secret manager the offline path is assumed, as it is
\* for an alias or nft input
ResolveEd25519Offline(address, sm, time) ==
    LET searched ==
            IF sm THEN SearchOutcomes(address) ELSE {<<"Ok", <<0, FALSE>>>>}
    IN  UNION {
          IF so[1] = "Err"
          THEN {Fails(<<Request("search_address", address, so[2])>>, so[2])}
          ELSE LET first == IF sm THEN <<Request("search_address", address, "Ok")>>
                            ELSE <<>>
               IN  {Fails(first \o <<Request("basic_address_outputs", address, "Transport")>>,
                          "Transport")}
                   \cup {ScanBasic(first \o <<Request("basic_address_outputs", address, "Ok")>>,
                                   response, address, so[2], time) :
                             response \in BasicResponses(address)}
          : so \in searched}

\* mutant: the error of a search that found nothing is turned into the
\* error of the loop over the basic outputs
ResolveEd25519SearchIsMissingInput(address, sm, time) ==
    IF ~sm
    THEN {Fails(<<>>, "MissingParameter")}
    ELSE UNION {
          IF so[1] = "Err"
          THEN {Fails(<<Request("search_address", address, so[2])>>,
                      IF so[2] = "InputAddressNotFound"
                      THEN "MissingInputWithEd25519Address" ELSE so[2])}
          ELSE LET searched == <<Request("search_address", address, "Ok")>>
               IN  {Fails(searched \o <<Request("basic_address_outputs", address, "Transport")>>,
                          "Transport")}
                   \cup {ScanBasic(searched \o <<Request("basic_address_outputs", address, "Ok")>>,
                                   response, address, so[2], time) :
                             response \in BasicResponses(address)}
          : so \in SearchOutcomes(address)}

\* Address::Ed25519(_) => ..: the outcomes of the arm
ResolveEd25519(address, sm, time) ==
    IF ~sm
    THEN {Fails(<<>>, "MissingParameter")}
    ELSE UNION {
          IF so[1] = "Err"
          THEN {Fails(<<Request("search_address", address, so[2])>>, so[2])}
          ELSE LET searched == <<Request("search_address", address, "Ok")>>
               IN  {Fails(searched \o <<Request("basic_address_outputs", address, "Transport")>>,
                          "Transport")}
                   \cup {ScanBasic(searched \o <<Request("basic_address_outputs", address, "Ok")>>,
                                   response, address, so[2], time) :
                             response \in BasicResponses(address)}
          : so \in SearchOutcomes(address)}

\* the unlock address of a fetched alias or nft output
UnlockAddress(oid, time) ==
    IF Ledger[oid].kind = "Alias"
    THEN Ledger[oid].state_controller
    ELSE locked_address(Ledger[oid], time)

\* mutant: an input that an alias or nft address unlocks gets the offline
\* path
PushFetchedOfflineForChains(reqs, oid, sm, time) ==
    LET unlock_address == UnlockAddress(oid, time)
    IN  IF sm /\ unlock_address[1] = "Ed25519"
        THEN {IF so[1] = "Err"
              THEN Fails(reqs \o <<Request("search_address", unlock_address, so[2])>>,
                         so[2])
              ELSE Outcome(reqs \o <<Request("search_address", unlock_address, "Ok")>>,
                           <<SynthesizedInput(oid, Chain(so[2][1], so[2][2]),
                                              unlock_address)>>,
                           "None", FALSE, <<>>)
              : so \in SearchOutcomes(unlock_address)}
        ELSE {Outcome(reqs, <<SynthesizedInput(oid, OfflineChain, unlock_address)>>,
                      "None", FALSE, <<>>)}

\* let address_index_internal = match self.secret_manager {..} and the push
\* that follows it
PushFetched(reqs, oid, sm, time) ==
    LET unlock_address == UnlockAddress(oid, time)
    IN  IF sm
        THEN IF unlock_address[1] = "Ed25519"
             THEN {IF so[1] = "Err"
                   THEN Fails(reqs \o <<Request("search_address", unlock_address, so[2])>>,
                              so[2])
                   ELSE Outcome(reqs \o <<Request("search_address", unlock_address, "Ok")>>,
                                <<SynthesizedInput(oid, Chain(so[2][1], so[2][2]),
                                                   unlock_address)>>,
                                "None", FALSE, <<>>)
                   : so \in SearchOutcomes(unlock_address)}
             ELSE {Outcome(reqs, <<SynthesizedInput(oid, NoChain, unlock_address)>>,
                           "None", FALSE, <<>>)}
        ELSE {Outcome(reqs, <<SynthesizedInput(oid, OfflineChain, unlock_address)>>,
                      "None", FALSE, <<>>)}

\* the name of the lookup of a chain
OutputIdRequest(kind) == IF kind = "Alias" THEN "alias_output_id" ELSE "nft_output_id"

\* mutant: a get_output request that fails is made a second time
FetchChainRetried(kind, chain_id, sm, time) ==
    LET lookup == OutputIdRequest(kind)
    IN  {Fails(<<Request(lookup, chain_id, "Transport")>>, "Transport")}
        \cup
        (IF ChainOutputIds(kind, chain_id) = {}
         THEN {Fails(<<Request(lookup, chain_id, "NotFound")>>, "NotFound")}
         ELSE UNION {
                LET looked == <<Request(lookup, chain_id, "Ok")>>
                    got == looked \o <<Request("get_output", oid, "Ok")>>
                    again == looked \o <<Request("get_output", oid, "Transport"),
                                         Request("get_output", oid, "Ok")>>
                IN  {Fails(looked \o <<Request("get_output", oid, "Transport"),
                                       Request("get_output", oid, "Transport")>>,
                           "Transport")}
                    \cup
                    (IF Ledger[oid].kind = kind
                     THEN {Fails(got, "Decode")} \cup PushFetched(got, oid, sm, time)
                              \cup PushFetched(again, oid, sm, time)
                     ELSE {Outcome(got, <<>>, "None", FALSE, <<>>)})
                : oid \in ChainOutputIds(kind, chain_id)})

\* alias_output_id / nft_output_id, get_output and what is made of the
\* response
FetchChain(kind, chain_id, sm, time) ==
    LET lookup == OutputIdRequest(kind)
    IN  {Fails(<<Request(lookup, chain_id, "Transport")>>, "Transport")}
        \cup
        (IF ChainOutputIds(kind, chain_id) = {}
         THEN {Fails(<<Request(lookup, chain_id, "NotFound")>>, "NotFound")}
         ELSE UNION {
                LET looked == <<Request(lookup, chain_id, "Ok")>>
                    got == looked \o <<Request("get_output", oid, "Ok")>>
                IN  {Fails(looked \o <<Request("get_output", oid, "Transport")>>,
                           "Transport")}
                    \cup
                    (IF Ledger[oid].kind = kind
                     THEN {Fails(got, "Decode")} \cup PushFetched(got, oid, sm, time)
                     ELSE {Outcome(got, <<>>, "None", FALSE, <<>>)})
                : oid \in ChainOutputIds(kind, chain_id)})

\* utxo_chain_inputs.iter().chain(required_inputs.iter()).any(..): an input
\* of the kind carries the identifier
AlreadyFound(kind, chain_id, known, required) ==
    \/ \E i \in 1..Len(known) :
           Ledger[known[i]].kind = kind /\ Ledger[known[i]].chain_id = chain_id
    \/ \E i \in 1..Len(required) :
           /\ Ledger[required[i].output_id].kind = kind
           /\ Ledger[required[i].output_id].chain_id = chain_id

\* mutant: any known or resolved input of the kind ends the search
ResolveChainAnyOfKind(address, known, required, sm, time) ==
    IF \/ \E i \in 1..Len(known) : Ledger[known[i]].kind = address[1]
       \/ \E i \in 1..Len(required) : Ledger[required[i].output_id].kind = address[1]
    THEN {Outcome(<<>>, <<>>, "None", FALSE, <<>>)}
    ELSE FetchChain(address[1], address[2], sm, time)

\* Address::Alias(_) => .. / Address::Nft(_) => ..: the outcomes of the arm
ResolveChain(address, known, required, sm, time) ==
    IF AlreadyFound(address[1], address[2], known, required)
    THEN {Outcome(<<>>, <<>>, "None", FALSE, <<>>)}
    ELSE FetchChain(address[1], address[2], sm, time)

\* the body of the loop over required_sender_or_issuer_addresses
ResolveOutcomes(address, known, required, sm, time) ==
    IF address[1] = "Ed25519"
    THEN ResolveEd25519(address, sm, time)
    ELSE ResolveChain(address, known, required, sm, time)

\* the new outputs the resolver is run on: senders and issuers of every
\* kind of address, known to the ledger and the seed or not
ResolverOutputs ==
    {   BasicOutput(Ed25519(1), NoExpiration, Ed25519(1)),
        BasicOutput(Ed25519(1), NoExpiration, Ed25519(3)),
        BasicOutput(Ed25519(1), NoExpiration, AliasAddress(1)),
        BasicOutput(Ed25519(1), NoExpiration, AliasAddress(IdFromOutputId(5))),
        BasicOutput(Ed25519(1), NoExpiration, AliasAddress(3)),
        BasicOutput(Ed25519(1), NoExpiration, NftAddress(IdFromOutputId(4))),
        BasicOutput(Ed25519(1), NoExpiration, NftAddress(2)),
        AliasOutput(NullId, 0, Ed25519(1), Ed25519(1), NoAddress, Ed25519(2))
    }
\* the chain outputs the caller may already hold: alias 1 and the alias
\* whose identifier is still null
KnownChainOutputIds == {3, 5}

\* a call of the resolver: any outputs and known chain inputs within the
\* bounds, with or without a secret manager
InitResolver ==
    /\ outputs \in SeqUpTo(ResolverOutputs, MaxOutputs)
    /\ inputs = <<>>
    /\ selected_inputs = <<>>
    /\ utxo_chain_inputs \in InjSeqUpTo(KnownChainOutputIds, MaxKnown)
    /\ secret_manager \in BOOLEAN
    /\ NotCalled

matcher_vars == <<inputs, selected_inputs, selected_inputs_output_ids, result,
                  entry_selected_inputs, visited, pushed, other_vars>>

\* get_bech32_hrp, get_time_checked, get_token_supply
ProtocolRequests == <<"get_bech32_hrp", "get_time_checked", "get_token_supply">>

\* one of the three requests for the protocol parameters fails: `?` returns
ResolverFailsEarly ==
    /\ pc = "idle"
    /\ \E k \in 1..Len(ProtocolRequests) :
           requests' = [i \in 1..k |->
                           Request(ProtocolRequests[i], 0,
                                   IF i = k THEN "Transport" ELSE "Ok")]
    /\ pc' = "returned"
    /\ returned' = RetErr("Transport")
    /\ UNCHANGED <<outputs, current_time, required_addresses, entry_required_addresses,
                   utxo_chain_inputs, secret_manager, required_inputs, utxo_chains,
                   expand_pos, steps>>
    /\ UNCHANGED matcher_vars

\* the call up to the head of the loop: the Collector runs on the builder's
\* outputs with an empty selection
ResolverCall ==
    /\ pc = "idle"
    /\ requests' = [i \in 1..Len(ProtocolRequests) |-> Request(ProtocolRequests[i], 0, "Ok")]
    /\ required_addresses' =
           get_required_addresses_for_sender_and_issuer(<<>>, outputs, current_time)
    /\ entry_required_addresses' = required_addresses'
    /\ pc' = "resolve"
    /\ UNCHANGED <<outputs, current_time, utxo_chain_inputs, secret_manager,
                   required_inputs, utxo_chains, expand_pos, steps, returned>>
    /\ UNCHANGED matcher_vars

\* what is recorded of the iteration for an address
StepOf(address, before, o) ==
    [address |-> address, before |-> before, requests |-> o.requests,
     got_response |-> o.got_response, response |-> o.response,
     pushed |-> o.push, err |-> o.err]

\* mutant: the input an iteration has resolved is written into the known
\* chain inputs of the caller
ResolvedIntoKnown(address) ==
    /\ pc = "resolve"
    /\ address \in required_addresses
    /\ \E o \in ResolveOutcomes(address, utxo_chain_inputs, required_inputs,
                               secret_manager, current_time) :
           /\ o.err = "None"
           /\ requests' = requests \o o.requests
           /\ steps' = Append(steps, StepOf(address, required_inputs, o))
           /\ required_inputs' = required_inputs \o o.push
           /\ utxo_chain_inputs' =
                  utxo_chain_inputs \o [i \in 1..Len(o.push) |-> o.push[i].output_id]
    /\ required_addresses' = required_addresses \ {address}
    /\ UNCHANGED <<outputs, current_time, pc, entry_required_addresses,
                   secret_manager, utxo_chains, expand_pos, returned>>
    /\ UNCHANGED matcher_vars

\* an iteration of the loop that ends without an error
Resolved(address) ==
    /\ pc = "resolve"
    /\ address \in required_addresses
    /\ \E o \in ResolveOutcomes(address, utxo_chain_inputs, required_inputs,
                               secret_manager, current_time) :
           /\ o.err = "None"
           /\ requests' = requests \o o.requests
           /\ steps' = Append(steps, StepOf(address, required_inputs, o))
           /\ required_inputs' = required_inputs \o o.push
    /\ required_addresses' = required_addresses \ {address}
    /\ UNCHANGED <<outputs, current_time, pc, entry_required_addresses, utxo_chain_inputs,
                   secret_manager, utxo_chains, expand_pos, returned>>
    /\ UNCHANGED matcher_vars

\* mutant: the error of an iteration is dropped and the loop goes on
ResolveFailsSkipped(address) ==
    /\ pc = "resolve"
    /\ address \in required_addresses
    /\ \E o \in ResolveOutcomes(address, utxo_chain_inputs, required_inputs,
                               secret_manager, current_time) :
           /\ o.err # "None"
           /\ requests' = requests \o o.requests
           /\ steps' = Append(steps, StepOf(address, required_inputs, o))
    /\ required_addresses' = required_addresses \ {address}
    /\ UNCHANGED <<outputs, current_time, pc, entry_required_addresses, utxo_chain_inputs,
                   secret_manager, required_inputs, utxo_chains, expand_pos, returned>>
    /\ UNCHANGED matcher_vars

\* an iteration of the loop that ends the call with an error
ResolveFails(address) ==
    /\ pc = "resolve"
    /\ address \in required_addresses
    /\ \E o \in ResolveOutcomes(address, utxo_chain_inputs, required_inputs,
                               secret_manager, current_time) :
           /\ o.err # "None"
           /\ requests' = requests \o o.requests
           /\ steps' = Append(steps, StepOf(address, required_inputs, o))
           /\ returned' = RetErr(o.err)
    /\ pc' = "returned"
    /\ UNCHANGED <<outputs, current_time, required_addresses, entry_required_addresses,
                   utxo_chain_inputs, secret_manager, required_inputs, utxo_chains,
                   expand_pos>>
    /\ UNCHANGED matcher_vars

\* get_utxo_chains_inputs, one input of its worklist at a time: when the
\* unlock address of the input at pos is an alias or nft address and the
\* output of that chain is not in the worklist, the output is fetched
ExpansionOutcomes(worklist, pos, sm, time) ==
    LET owner == worklist[pos].bech32_address
    IN  IF /\ owner[1] \in {"Alias", "Nft"}
           /\ \A i \in 1..Len(worklist) :
                  worklist[i].output_id \notin ChainOutputIds(owner[1], owner[2])
        THEN FetchChain(owner[1], owner[2], sm, time)
        ELSE {Outcome(<<>>, <<>>, "None", FALSE, <<>>)}

\* the chain expansion looks at one more input, and fetches its owner
Expanded ==
    /\ pc = "resolve"
    /\ required_addresses = {}
    /\ expand_pos <= Len(required_inputs \o utxo_chains)
    /\ \E o \in ExpansionOutcomes(required_inputs \o utxo_chains, expand_pos,
                                 secret_manager, current_time) :
           /\ o.err = "None"
           /\ requests' = requests \o o.requests
           /\ utxo_chains' = utxo_chains \o o.push
    /\ expand_pos' = expand_pos + 1
    /\ UNCHANGED <<outputs, current_time, pc, required_addresses, entry_required_addresses,
                   utxo_chain_inputs, secret_manager, required_inputs, steps, returned>>
    /\ UNCHANGED matcher_vars

\* the chain expansion fails: .await? returns its error
ExpandFails ==
    /\ pc = "resolve"
    /\ required_addresses = {}
    /\ expand_pos <= Len(required_inputs \o utxo_chains)
    /\ \E o \in ExpansionOutcomes(required_inputs \o utxo_chains, expand_pos,
                                 secret_manager, current_time) :
           /\ o.err # "None"
           /\ requests' = requests \o o.requests
           /\ returned' = RetErr(o.err)
    /\ pc' = "returned"
    /\ UNCHANGED <<outputs, current_time, required_addresses, entry_required_addresses,
                   utxo_chain_inputs, secret_manager, required_inputs, utxo_chains,
                   expand_pos, steps>>
    /\ UNCHANGED matcher_vars

\* mutant: what the chain expansion fetched is not added to the result
ResolverReturnsUnexpanded ==
    /\ pc = "resolve"
    /\ required_addresses = {}
    /\ expand_pos > Len(required_inputs \o utxo_chains)
    /\ returned' = RetOk(required_inputs)
    /\ pc' = "returned"
    /\ UNCHANGED <<outputs, current_time, required_addresses, entry_required_addresses,
                   utxo_chain_inputs, secret_manager, required_inputs, utxo_chains,
                   expand_pos, requests, steps>>
    /\ UNCHANGED matcher_vars

\* required_inputs.extend(utxo_chain_inputs.into_iter()); Ok(required_inputs)
ResolverReturns ==
    /\ pc = "resolve"
    /\ required_addresses = {}
    /\ expand_pos > Len(required_inputs \o utxo_chains)
    /\ returned' = RetOk(required_inputs \o utxo_chains)
    /\ pc' = "returned"
    /\ UNCHANGED <<outputs, current_time, required_addresses, entry_required_addresses,
                   utxo_chain_inputs, secret_manager, required_inputs, utxo_chains,
                   expand_pos, requests, steps>>
    /\ UNCHANGED matcher_vars

NextResolver ==
    \/ ResolverFailsEarly
    \/ ResolverCall
    \/ \E a \in required_addresses : Resolved(a)
    \/ \E a \in required_addresses : ResolveFails(a)
    \/ Expanded
    \/ ExpandFails
    \/ ResolverReturns

SpecResolver == InitResolver /\ [][NextResolver]_vars

(***************************************************************************)
(* Properties of the resolver (SpecResolver).                              *)
(***************************************************************************)
ResolverReturned == pc = "returned" /\ returned.status # "Running"
ResolverSucceeded == pc = "returned" /\ returned.status = "Ok"
ResolverFailed == pc = "returned" /\ returned.status = "Err"

\* the requests of a log that were made for an address
RequestsFor(log, names, address) ==
    {i \in 1..Len(log) : log[i].name \in names /\ log[i].arg = address}

\* C13: an iteration for an Ed25519 address without a secret manager ends
\* the call with the missing parameter error, without a search_address or a
\* basic_address_outputs request for the address and without an input; an
\* alias output with a null identifier and an Ed25519 issuer, no secret
\* manager: the call fails with that error.
C13_NoSecretManagerFailsBeforeAnyRequest ==
    /\ \A k \in 1..Len(steps) :
           (steps[k].address[1] = "Ed25519" /\ ~secret_manager) =>
               /\ steps[k].err = "MissingParameter"
               /\ steps[k].requests = <<>>
               /\ steps[k].pushed = <<>>
               /\ RequestsFor(requests, {"search_address", "basic_address_outputs"},
                              steps[k].address) = {}
               /\ k = Len(steps)
               /\ returned = RetErr("MissingParameter")
    /\ (/\ outputs = <<AliasOutput(NullId, 0, Ed25519(1), Ed25519(1), NoAddress, Ed25519(2))>>
        /\ ~secret_manager
        /\ steps # <<>>)
       => returned = RetErr("MissingParameter")

\* C13 witness: without a secret manager, the call has resolved an alias
\* address and then failed on an Ed25519 address.
C13_Witness ==
    /\ ResolverFailed
    /\ ~secret_manager
    /\ Len(steps) = 2
    /\ steps[1].pushed # <<>>
    /\ steps[2].address[1] = "Ed25519"
    /\ returned.error = "MissingParameter"

\* the iteration k is for an Ed25519 address that the search did not find
\* in its range
SearchExhausted(k) ==
    /\ steps[k].address[1] = "Ed25519"
    /\ secret_manager
    /\ steps[k].requests # <<>>
    /\ steps[k].requests[1] =
           Request("search_address", steps[k].address, "InputAddressNotFound")

\* C14 as stated: when the search goes through its range without finding the
\* address, the call fails with the missing-input-with-Ed25519-address error.
C14_ExhaustedSearchIsMissingEd25519Input ==
    \A k \in 1..Len(steps) :
        SearchExhausted(k) => returned = RetErr("MissingInputWithEd25519Address")

\* C14 amended: when the search goes through its range without finding the
\* address, the call fails with the error of the search, and no basic
\* outputs query is made; the missing-input-with-Ed25519-address error is
\* returned only after a search that found the address and a query that was
\* answered.
C14_ExhaustedSearchErrorIsPropagated ==
    \A k \in 1..Len(steps) :
        /\ SearchExhausted(k) =>
               /\ returned = RetErr("InputAddressNotFound")
               /\ Len(steps[k].requests) = 1
               /\ RequestsFor(requests, {"basic_address_outputs"}, steps[k].address) = {}
               /\ steps[k].pushed = <<>>
        /\ steps[k].err = "MissingInputWithEd25519Address" =>
               /\ steps[k].address \in DOMAIN SeedAddresses
               /\ steps[k].requests =
                      <<Request("search_address", steps[k].address, "Ok"),
                        Request("basic_address_outputs", steps[k].address, "Ok")>>
               /\ steps[k].got_response

\* C14 witness: the call failed on an Ed25519 address the seed does not
\* derive, after resolving another address.
C14_Witness ==
    /\ ResolverFailed
    /\ Len(steps) = 2
    /\ SearchExhausted(2)
    /\ steps[2].address \notin DOMAIN SeedAddresses

\* the positions of a response whose output decodes and has the address as
\* its required unlock address at the time
Qualifying(response, address, time) ==
    {i \in 1..Len(response) :
        /\ response[i] # Malformed
        /\ locked_address(Ledger[response[i]], time) = address}

\* C15: for an Ed25519 address whose index was found and whose basic outputs
\* were returned, the iteration pushes exactly one input, the first output
\* of the response that has the address as its required unlock address at
\* the current time, with the path of the index found; when no output of
\* the response has, it fails with the missing-input-with-Ed25519-address
\* error and pushes nothing. (A response entry that does not decode, met
\* before that, is the decoding error of C20.)
C15_FirstQualifyingOutputIsAdded ==
    \A k \in 1..Len(steps) :
        (steps[k].address[1] = "Ed25519" /\ steps[k].got_response) =>
            LET response == steps[k].response
                q == Qualifying(response, steps[k].address, current_time)
                scanned == IF q = {} THEN Len(response) ELSE Min(q)
            IN  (\A i \in 1..scanned : response[i] # Malformed) =>
                    IF q = {}
                    THEN /\ steps[k].err = "MissingInputWithEd25519Address"
                         /\ steps[k].pushed = <<>>
                         /\ returned = RetErr("MissingInputWithEd25519Address")
                    ELSE /\ steps[k].err = "None"
                         /\ steps[k].pushed =
                                <<SynthesizedInput(
                                      response[Min(q)],
                                      Chain(SeedAddresses[steps[k].address][1],
                                            SeedAddresses[steps[k].address][2]),
                                      steps[k].address)>>

\* C15 witness: the response held two outputs of the address, the first of
\* them under the control of its expiration return address, and the second
\* was pushed.
C15_Witness ==
    \E k \in 1..Len(steps) :
        /\ steps[k].got_response
        /\ Len(steps[k].response) = 2
        /\ Qualifying(steps[k].response, steps[k].address, current_time) = {2}
        /\ steps[k].response[1] # Malformed
        /\ Ledger[steps[k].response[1]].address = steps[k].address
        /\ Len(steps[k].pushed) = 1
        /\ steps[k].pushed[1].output_id = steps[k].response[2]

\* the output of the chain of an address is among the inputs
HasChainOutput(oids, address) ==
    \E oid \in oids : oid \in ChainOutputIds(address[1], address[2])
\* the OutputIds of a list of synthesized inputs
SynthesizedIds(list) == {list[i].output_id : i \in 1..Len(list)}

\* C16: for an alias or nft address, when the output of the chain (by its
\* non-null identifier) is among the known chain inputs or the inputs
\* resolved before, the iteration makes no request and pushes nothing;
\* otherwise it looks the chain up, fetches the output and pushes at most
\* one input, the output of the chain.
C16_KnownChainOutputIsNotFetchedAgain ==
    \A k \in 1..Len(steps) :
        steps[k].address[1] \in {"Alias", "Nft"} =>
            IF HasChainOutput(Range(utxo_chain_inputs) \cup SynthesizedIds(steps[k].before),
                              steps[k].address)
            THEN /\ steps[k].requests = <<>>
                 /\ steps[k].pushed = <<>>
                 /\ steps[k].err = "None"
            ELSE /\ steps[k].requests # <<>>
                 /\ steps[k].requests[1].name = OutputIdRequest(steps[k].address[1])
                 /\ steps[k].requests[1].arg = steps[k].address[2]
                 /\ Len(steps[k].pushed) <= 1
                 /\ \A i \in 1..Len(steps[k].pushed) :
                        /\ steps[k].pushed[i].output_id
                              \in ChainOutputIds(steps[k].address[1], steps[k].address[2])
                        /\ steps[k].requests[2] =
                               Request("get_output", steps[k].pushed[i].output_id, "Ok")

RECURSIVE PushedBySteps(_)
\* what the iterations pushed, in order
PushedBySteps(k) == IF k = 0 THEN <<>> ELSE PushedBySteps(k - 1) \o steps[k].pushed

\* C19: the chain expansion runs only when no required address is left,
\* over the inputs fetched in this call; the list returned is these inputs
\* followed by what the expansion fetched; in a successful call every
\* returned alias or nft input that an alias or nft address unlocks has the
\* output of that chain among the known chain inputs and the returned list.
C19_ExpansionClosesTheChainDependencies ==
    /\ (utxo_chains # <<>> \/ expand_pos > 1) =>
           /\ required_addresses = {}
           /\ \A k \in 1..Len(steps) : steps[k].err = "None"
    /\ required_inputs = PushedBySteps(Len(steps))
    /\ \A j \in 1..Len(utxo_chains) :
           \E i \in 1..(Len(required_inputs) + j - 1) :
               utxo_chains[j].output_id
                   \in ChainOutputIds((required_inputs \o utxo_chains)[i].bech32_address[1],
                                      (required_inputs \o utxo_chains)[i].bech32_address[2])
    /\ ResolverSucceeded =>
           /\ returned.inputs = required_inputs \o utxo_chains
           /\ \A i \in 1..Len(returned.inputs) :
                  (/\ Ledger[returned.inputs[i].output_id].kind \in {"Alias", "Nft"}
                   /\ returned.inputs[i].bech32_address[1] \in {"Alias", "Nft"})
                  => HasChainOutput(Range(utxo_chain_inputs)
                                        \cup SynthesizedIds(returned.inputs),
                                    returned.inputs[i].bech32_address)

\* C19 witness: a successful call that fetched an nft for a required
\* address, then the nft that owns it, then the alias that owns that one.
C19_Witness ==
    /\ ResolverSucceeded
    /\ Len(required_inputs) = 1
    /\ Len(utxo_chains) = 2
    /\ utxo_chains[1].bech32_address[1] = "Alias"
    /\ utxo_chains[2].bech32_address[1] = "Ed25519"

\* C20: a request that fails is the last request of the call, and the call
\* returns its error; an iteration that fails is the last one; a call that
\* returns an error returns no inputs.
C20_FirstErrorEndsTheCall ==
    /\ \A i \in 1..(Len(requests) - 1) : requests[i].outcome = "Ok"
    /\ (requests # <<>> /\ requests[Len(requests)].outcome # "Ok") =>
           /\ pc = "returned"
           /\ returned = RetErr(requests[Len(requests)].outcome)
    /\ \A k \in 1..(Len(steps) - 1) : steps[k].err = "None"
    /\ (steps # <<>> /\ steps[Len(steps)].err # "None") =>
           /\ pc = "returned"
           /\ returned = RetErr(steps[Len(steps)].err)
    /\ returned.status = "Err" => (pc = "returned" /\ returned.inputs = <<>>)
    /\ returned.status = "Ok" =>
           /\ \A i \in 1..Len(requests) : requests[i].outcome = "Ok"
           /\ required_addresses = {}

\* C20 witness: the call had fetched an input for one address when the
\* get_output request for the next one failed: the caller gets the error and
\* no input.
C20_Witness ==
    /\ ResolverFailed
    /\ required_inputs # <<>>
    /\ requests[Len(requests)].name = "get_output"
    /\ requests[Len(requests)].outcome = "Transport"
    /\ returned = RetErr("Transport")

\* the OutputIds of the known chain inputs followed by those of a list of
\* synthesized inputs
KnownAndReturned(list) ==
    utxo_chain_inputs \o [i \in 1..Len(list) |-> list[i].output_id]

\* C21: when the call succeeds, no OutputId is twice among the known chain
\* inputs it was given and the list it returns, the results of the chain
\* expansion included.
C21_NoOutputIdTwice ==
    ResolverSucceeded => Distinct(KnownAndReturned(returned.inputs))


(***************************************************************************)
(* Two calls of the resolver with the same arguments and the same          *)
(* collaborators (SpecResolverTwice).                                      *)
(***************************************************************************)
\* the get_output responses of a call that did not decode
Undecodable(call_requests, call_returned) ==
    IF /\ call_returned.error = "Decode"
       /\ call_requests # <<>>
       /\ call_requests[Len(call_requests)].name = "get_output"
    THEN {call_requests[Len(call_requests)].arg}
    ELSE {}

\* every get_output of the call for one of the oids got a response that
\* did not decode
DecodeFailsFor(oids, call_requests, call_returned) ==
    \A i \in 1..Len(call_requests) :
        (/\ call_requests[i].name = "get_output"
         /\ call_requests[i].outcome = "Ok"
         /\ call_requests[i].arg \in oids)
        => call_requests[i].arg \in Undecodable(call_requests, call_returned)

\* the same request has got the same answer in two lists of requests
RequestsAgree(a, b) ==
    \A i \in 1..Len(a), j \in 1..Len(b) :
        (a[i].name = b[j].name /\ a[i].arg = b[j].arg) => a[i].outcome = b[j].outcome

\* the basic outputs query for an address has got the same response in
\* two lists of iterations
ResponsesAgree(a, b) ==
    \A k \in 1..Len(a), l \in 1..Len(b) :
        (a[k].got_response /\ b[l].got_response /\ a[k].address = b[l].address)
        => a[k].response = b[l].response

\* the collaborators are deterministic: in the earlier call and this one,
\* the same request has got the same answer
SameAnswers ==
    LET undecodable == Undecodable(first_call.requests, first_call.returned)
                           \cup Undecodable(requests, returned)
    IN  /\ RequestsAgree(requests, requests)
        /\ RequestsAgree(first_call.requests, requests)
        /\ ResponsesAgree(steps, steps)
        /\ ResponsesAgree(first_call.steps, steps)
        /\ DecodeFailsFor(undecodable, first_call.requests, first_call.returned)
        /\ DecodeFailsFor(undecodable, requests, returned)

\* the caller makes the call again, with the arguments of the call that
\* has returned
ResolverAgain ==
    /\ pc = "returned"
    /\ first_call = NoFirstCall
    /\ first_call' = [returned |-> returned, requests |-> requests, steps |-> steps]
    /\ pc' = "idle"
    /\ required_addresses' = {}
    /\ entry_required_addresses' = {}
    /\ required_inputs' = <<>>
    /\ utxo_chains' = <<>>
    /\ expand_pos' = 1
    /\ requests' = <<>>
    /\ steps' = <<>>
    /\ returned' = NotReturned
    /\ UNCHANGED <<outputs, current_time, utxo_chain_inputs, secret_manager, inputs,
                   selected_inputs, selected_inputs_output_ids, result,
                   entry_selected_inputs, visited, pushed, first_match>>
    /\ UNCHANGED outside_selection

\* a step of a call, answered by deterministic collaborators
ResolverStep == NextResolver /\ SameAnswers'

NextTwice ==
    \/ ResolverStep
    \/ ResolverAgain

\* the senders the two calls are made for: found through the seed, the
\* alias of the wallet, the alias whose stored identifier is null, the nft
\* that alias 1 owns
TwiceOutputs ==
    <<  BasicOutput(Ed25519(1), NoExpiration, Ed25519(1)),
        BasicOutput(Ed25519(1), NoExpiration, AliasAddress(1)),
        BasicOutput(Ed25519(1), NoExpiration, AliasAddress(IdFromOutputId(5))),
        BasicOutput(Ed25519(1), NoExpiration, NftAddress(IdFromOutputId(4)))
    >>

\* the arguments of the two calls: the required set is a set, so one order
\* of the outputs stands for all of them; the calls are made before any
\* expiration, when two basic outputs qualify for the first address
InitResolverTwice ==
    /\ current_time = 0
    /\ \E picked \in {s \in SeqUpTo(1..Len(TwiceOutputs), MaxOutputs) :
                          \A i \in 1..(Len(s) - 1) : s[i] < s[i + 1]} :
           outputs = [i \in 1..Len(picked) |-> TwiceOutputs[picked[i]]]
    /\ inputs = <<>>
    /\ selected_inputs = <<>>
    /\ utxo_chain_inputs \in InjSeqUpTo(KnownChainOutputIds, MaxKnown)
    /\ secret_manager \in BOOLEAN
    /\ NotCalled

SpecResolverTwice == InitResolverTwice /\ [][NextTwice]_vars

\* C22: with deterministic collaborators, a second call with the same
\* arguments succeeds exactly when the first one did, whatever the order in
\* which the two calls went through the required addresses, and on success
\* the two calls return the same set of OutputIds.
C22_OrderDoesNotChangeTheResult ==
    (pc = "returned" /\ first_call # NoFirstCall) =>
        /\ returned.status = first_call.returned.status
        /\ returned.status = "Ok" =>
               SynthesizedIds(returned.inputs) = SynthesizedIds(first_call.returned.inputs)

\* C22 witness: two successful calls that went through the required
\* addresses in different orders and returned the same inputs in different
\* orders.
C22_Witness ==
    /\ pc = "returned"
    /\ first_call.returned.status = "Ok"
    /\ returned.status = "Ok"
    /\ Len(steps) >= 2
    /\ steps[1].address # first_call.steps[1].address
    /\ returned.inputs # first_call.returned.inputs


\* C23: no step of a call writes what the caller can see: the known chain
\* inputs, the builder's outputs and its secret manager are after every
\* step what they were before it, so a call abandoned at any point leaves
\* them as they were at entry.
C23_CallWritesOnlyItsLocals ==
    [][/\ utxo_chain_inputs' = utxo_chain_inputs
       /\ outputs' = outputs
       /\ secret_manager' = secret_manager
       /\ current_time' = current_time]_vars

\* C23 witness: the call is suspended between two iterations, with inputs
\* in its local list, addresses left to resolve and known chain inputs.
C23_Witness ==
    /\ pc = "resolve"
    /\ required_inputs # <<>>
    /\ required_addresses # {}
    /\ utxo_chain_inputs # <<>>
    /\ returned = NotReturned


(***************************************************************************)
(* ExpirationUnlockCondition: construction, DTO conversion and expiry      *)
(* (SpecExpiration).                                                       *)
(***************************************************************************)
\* the u32 timestamps conditions are made with and asked about: zero, the
\* first ones and one far from them
Timestamps == 0..(MaxTime + 1) \cup {2147483647}
\* the return addresses conditions are made with
ReturnAddresses == {Ed25519(1), AliasAddress(1), NftAddress(2)}

\* ExpirationUnlockCondition::KIND
KIND == 3

\* mutant: the timestamp is never checked
verify_timestamp_unchecked(VERIFY, timestamp) == <<"Ok">>

\* verify_timestamp::<VERIFY>
verify_timestamp(VERIFY, timestamp) ==
    IF VERIFY /\ timestamp = 0
    THEN <<"Err", "ExpirationUnlockConditionZero">>
    ELSE <<"Ok">>

\* ExpirationUnlockCondition::new
new(return_address, timestamp) ==
    LET verified == verify_timestamp(TRUE, timestamp)
    IN  IF verified[1] = "Err"
        THEN verified
        ELSE <<"Ok", Expiration(return_address, timestamp)>>

\* Packable::unpack::<_, VERIFY> of the bytes of a return address and a
\* timestamp: the derive calls verify_timestamp::<VERIFY> on the field
unpack(VERIFY, return_address, timestamp) ==
    LET verified == verify_timestamp(VERIFY, timestamp)
    IN  IF verified[1] = "Err"
        THEN verified
        ELSE <<"Ok", Expiration(return_address, timestamp)>>

\* serde::Deserialize, as derived: the fields are taken as they come
deserialize(return_address, timestamp) ==
    <<"Ok", Expiration(return_address, timestamp)>>

\* the type byte of an address in its DTO
AddressKind(address) ==
    CASE address[1] = "Ed25519" -> 0
      [] address[1] = "Alias" -> 8
      [] address[1] = "Nft" -> 16
\* AddressDto: the type byte and the hex string of the identifier
AddressDto(kind, hex) == [kind |-> kind, hex |-> hex]
\* a hex string that does not parse
BadHex == -1
\* From<&Address> for AddressDto
AddressToDto(address) == AddressDto(AddressKind(address), address[2])
\* TryFrom<&AddressDto> for Address
AddressFromDto(dto) ==
    IF dto.hex = BadHex THEN <<"Err", "InvalidAddress">>
    ELSE CASE dto.kind = 0 -> <<"Ok", Ed25519(dto.hex)>>
           [] dto.kind = 8 -> <<"Ok", AliasAddress(dto.hex)>>
           [] dto.kind = 16 -> <<"Ok", NftAddress(dto.hex)>>
           [] OTHER -> <<"Err", "InvalidAddress">>

\* DtoError::InvalidField
InvalidField(field) == <<"InvalidField", field>>

\* ExpirationUnlockConditionDto
ExpirationUnlockConditionDto(kind, return_address, timestamp) ==
    [kind |-> kind, return_address |-> return_address, timestamp |-> timestamp]

\* From<&ExpirationUnlockCondition> for ExpirationUnlockConditionDto
DtoFrom(value) ==
    ExpirationUnlockConditionDto(KIND, AddressToDto(value.return_address),
                                 value.timestamp)

\* TryFrom<&ExpirationUnlockConditionDto> for ExpirationUnlockCondition
try_from(value) ==
    LET return_address == AddressFromDto(value.return_address)
    IN  IF return_address[1] = "Err"
        THEN <<"Err", InvalidField("expirationUnlockCondition")>>
        ELSE LET made == new(return_address[2], value.timestamp)
             IN  IF made[1] = "Err"
                 THEN <<"Err", InvalidField("expirationUnlockCondition")>>
                 ELSE made

\* the DTOs that arrive: of this kind or another, with an address that
\* converts, a hex string that does not parse or an unknown address type
Dtos ==
    {ExpirationUnlockConditionDto(kind, address, timestamp) :
        kind \in {KIND, 0},
        address \in {AddressToDto(a) : a \in ReturnAddresses}
                        \cup {AddressDto(0, BadHex), AddressDto(1, 1)},
        timestamp \in Timestamps}

\* what the steps on a condition leave alone
selection_vars ==
    <<outputs, inputs, selected_inputs, selected_inputs_output_ids, current_time, pc,
      required_addresses, result, entry_selected_inputs, entry_required_addresses,
      visited, pushed, utxo_chain_inputs, secret_manager, required_inputs, utxo_chains,
      expand_pos, requests, steps, returned, first_call, first_match>>
outside_expiration == <<selection_vars, stronghold_vars, snapshot_vars>>

InitExpiration ==
    /\ outputs = <<>>
    /\ inputs = <<>>
    /\ selected_inputs = <<>>
    /\ utxo_chain_inputs = <<>>
    /\ secret_manager = FALSE
    /\ current_time = 0
    /\ NotCalled

\* ExpirationUnlockCondition::new(return_address, timestamp)
New ==
    /\ construction = NotConstructed
    /\ \E return_address \in ReturnAddresses, timestamp \in Timestamps :
           construction' = [by |-> "new", from |-> <<return_address, timestamp>>,
                            result |-> new(return_address, timestamp)]
    /\ UNCHANGED <<condition_dto, round_trip, expired>>
    /\ UNCHANGED outside_expiration

\* ExpirationUnlockCondition::try_from(&dto) on a DTO that arrives
FromDto ==
    /\ construction = NotConstructed
    /\ \E dto \in Dtos :
           construction' = [by |-> "try_from", from |-> dto, result |-> try_from(dto)]
    /\ UNCHANGED <<condition_dto, round_trip, expired>>
    /\ UNCHANGED outside_expiration

\* ExpirationUnlockCondition::unpack, verified or not
Unpack ==
    /\ construction = NotConstructed
    /\ \E VERIFY \in BOOLEAN, return_address \in ReturnAddresses, timestamp \in Timestamps :
           construction' = [by |-> IF VERIFY THEN "unpack_verified" ELSE "unpack_unverified",
                            from |-> <<return_address, timestamp>>,
                            result |-> unpack(VERIFY, return_address, timestamp)]
    /\ UNCHANGED <<condition_dto, round_trip, expired>>
    /\ UNCHANGED outside_expiration

\* ExpirationUnlockCondition::deserialize
Deserialize ==
    /\ construction = NotConstructed
    /\ \E return_address \in ReturnAddresses, timestamp \in Timestamps :
           construction' = [by |-> "deserialize", from |-> <<return_address, timestamp>>,
                            result |-> deserialize(return_address, timestamp)]
    /\ UNCHANGED <<condition_dto, round_trip, expired>>
    /\ UNCHANGED outside_expiration

\* ExpirationUnlockConditionDto::from(&condition)
ToDto ==
    /\ construction.result[1] = "Ok"
    /\ condition_dto = NoDto
    /\ condition_dto' = <<"Some", DtoFrom(construction.result[2])>>
    /\ UNCHANGED <<construction, round_trip, expired>>
    /\ UNCHANGED outside_expiration

\* ExpirationUnlockCondition::try_from(&condition_dto)
ConvertBack ==
    /\ condition_dto # NoDto
    /\ round_trip = NotConverted
    /\ round_trip' = try_from(condition_dto[2])
    /\ UNCHANGED <<construction, condition_dto, expired>>
    /\ UNCHANGED outside_expiration

\* condition.return_address_expired(timestamp)
ReturnAddressExpired ==
    /\ construction.result[1] = "Ok"
    /\ ~expired.asked
    /\ \E timestamp \in Timestamps :
           expired' = [asked |-> TRUE, timestamp |-> timestamp,
                       result |-> return_address_expired(construction.result[2],
                                                         timestamp)]
    /\ UNCHANGED <<construction, condition_dto, round_trip>>
    /\ UNCHANGED outside_expiration

NextExpiration ==
    \/ New
    \/ FromDto
    \/ Unpack
    \/ Deserialize
    \/ ToDto
    \/ ConvertBack
    \/ ReturnAddressExpired

SpecExpiration == InitExpiration /\ [][NextExpiration]_vars

\* C24: return_address_expired(t) returns the return address when t is the
\* timestamp of the condition or later, and None when t is earlier.
C24_ReturnAddressFromTheTimestampOn ==
    expired.asked =>
        /\ expired.timestamp >= construction.result[2].timestamp
               => expired.result = construction.result[2].return_address
        /\ expired.timestamp < construction.result[2].timestamp
               => expired.result = NoAddress

\* C24 witness: asked at its own timestamp, a condition made by new gives
\* its return address.
C24_Witness ==
    /\ construction.by = "new"
    /\ expired.asked
    /\ expired.timestamp = construction.result[2].timestamp
    /\ expired.result = construction.from[1]
    /\ expired.result # NoAddress


\* the condition was constructed, whatever the way
Constructed == construction.result[1] = "Ok"

\* C25 as stated: no condition with timestamp 0 is constructed, whatever
\* the way.
C25_NoConditionHasTimestampZero ==
    Constructed => construction.result[2].timestamp # 0

\* C25 amended: new, the conversion from a DTO and verified unpacking never
\* construct a condition with timestamp 0 (unverified unpacking and
\* deserialization do): new(addr, 0) fails with
\* ExpirationUnlockConditionZero, the conversion of a DTO with unixTime 0
\* fails with InvalidField("expirationUnlockCondition"); new with a
\* timestamp above 0 succeeds with the address and the timestamp given;
\* converting a condition with a timestamp above 0 to a DTO and back gives
\* the condition.
C25_CheckedConstructorsRejectTimestampZero ==
    /\ construction.by \in {"new", "try_from", "unpack_verified"} =>
           (Constructed => construction.result[2].timestamp # 0)
    /\ construction.by = "new" =>
           construction.result =
               IF construction.from[2] = 0
               THEN <<"Err", "ExpirationUnlockConditionZero">>
               ELSE <<"Ok", [present |-> TRUE, return_address |-> construction.from[1],
                             timestamp |-> construction.from[2]]>>
    /\ (construction.by = "try_from" /\ construction.from.timestamp = 0) =>
           construction.result = <<"Err", <<"InvalidField", "expirationUnlockCondition">>>>
    /\ (construction.by \in {"unpack_unverified", "deserialize"}) =>
           /\ Constructed
           /\ construction.result[2].timestamp = construction.from[2]
    /\ round_trip # NotConverted =>
           /\ condition_dto[2].timestamp = construction.result[2].timestamp
           /\ condition_dto[2].kind = KIND
           /\ round_trip =
                  IF construction.result[2].timestamp > 0
                  THEN <<"Ok", construction.result[2]>>
                  ELSE <<"Err", <<"InvalidField", "expirationUnlockCondition">>>>

\* C25 witness: a DTO with an address that converts and unixTime 0 was
\* refused.
C25_Witness ==
    /\ construction.by = "try_from"
    /\ construction.from.timestamp = 0
    /\ AddressFromDto(construction.from.return_address)[1] = "Ok"
    /\ construction.result = <<"Err", <<"InvalidField", "expirationUnlockCondition">>>>


(***************************************************************************)
(* StrongholdClient: the key, the task that clears it after the timeout,   *)
(* and the encrypted database (SpecStronghold).                            *)
(***************************************************************************)
\* the timers one client spawns
MaxTasks == 2
Passwords == {1, 2}
Values == {1, 2}

\* derive_key_from_password: the key derived from the password
derive_key_from_password(password) == <<"PBKDF2_HMAC_SHA512", password>>

\* serde_json::to_vec / serde_json::from_slice
to_vec(v) == <<"json", v>>
from_slice(bytes) == IF bytes[1] = "json" THEN <<"Ok", bytes[2]>> ELSE <<"Err", 0>>

\* encryption::encrypt / encryption::decrypt: what one key has encrypted
\* only that key decrypts
encrypt(data, k) == <<"Ok", <<"encrypted", k, data>>>>
decrypt(data, k) ==
    IF data[1] = "encrypted" /\ data[2] = k THEN <<"Ok", data[3]>> ELSE <<"Err", 0>>

\* Stronghold::read_from_store: the data and the status
read_from_store(location) ==
    IF store[location] = None
    THEN <<<<>>, "Error">>
    ELSE <<store[location][2], "Ok">>

\* DatabaseProvider::get, on the store and the key as they are
get(k) ==
    LET read == read_from_store(location_from_key(k))
    IN  IF read[2] = "Error" THEN None
        ELSE IF key = None THEN None
        ELSE LET decrypted == decrypt(read[1], key[2])
             IN  IF decrypted[1] = "Err" THEN None
                 ELSE LET v == from_slice(decrypted[2])
                      IN  IF v[1] = "Err" THEN None ELSE Some(v[2])

\* JoinHandle::abort: a task that sleeps never runs again; a task that
\* runs is cancelled at its next await that yields, if there is one
abort(ts, h) ==
    [ts EXCEPT ![h] =
        IF @.pc = "sleep" THEN [pc |-> "cancelled", aborted |-> TRUE]
        ELSE IF @.pc \in {"purge", "take_self"} THEN [@ EXCEPT !.aborted = TRUE]
        ELSE @]

\* the database methods have run under this key too, or not
Observe(seen, k) ==
    IF k = None THEN [seen EXCEPT !.ok = FALSE]
    ELSE IF seen.key = None THEN [seen EXCEPT !.key = k]
    ELSE IF seen.key = k THEN seen
    ELSE [seen EXCEPT !.ok = FALSE]

\* the map is followed as long as the methods run under one key
Tracked(map, seen) == IF seen.ok THEN map ELSE [k \in RecordKeys |-> None]

\* what the client does not own
outside_client == <<selection_vars, expiration_vars>>
outside_stronghold == <<outside_client, snapshot_vars>>

InitStronghold ==
    /\ outputs = <<>>
    /\ inputs = <<>>
    /\ selected_inputs = <<>>
    /\ utxo_chain_inputs = <<>>
    /\ secret_manager = FALSE
    /\ current_time = 0
    /\ NotCalled

\* StrongholdClient::builder() .timeout(..) .password(..) .build(), each
\* setter called or not
Build ==
    /\ call.pc = "unbuilt"
    /\ \E with_timeout \in BOOLEAN, password \in {0} \cup Passwords :
           /\ timeout' = with_timeout
           /\ key' = IF password = 0 THEN None
                     ELSE Some(derive_key_from_password(password))
           /\ builder' = Some([timeout |-> with_timeout, password |-> password])
    /\ call' = Idle
    /\ UNCHANGED <<timeout_task, tasks, store, last, cleared, model_map, same_key>>
    /\ UNCHANGED outside_stronghold

\* set_password: *self.key.lock().await = Some(..), and the return when no
\* timeout is set
SetPassword ==
    /\ call.pc = "idle"
    /\ timeout => Len(tasks) < MaxTasks
    /\ \E password \in Passwords : key' = Some(derive_key_from_password(password))
    /\ cleared' = NotCleared
    /\ IF timeout
       THEN /\ call' = [Idle EXCEPT !.pc = "abort_old",
                                    !.raced = \E t \in 1..Len(tasks) :
                                                  \/ tasks[t].pc \in {"purge", "take_self"}
                                                  \/ /\ tasks[t].pc = "sleep"
                                                     /\ timeout_task # Some(t)]
            /\ last' = last
       ELSE /\ call' = Idle
            /\ last' = [NoOp EXCEPT !.op = "set_password"]
    /\ UNCHANGED <<timeout, timeout_task, tasks, store, builder, model_map, same_key>>
    /\ UNCHANGED outside_stronghold

\* set_password: if let Some(timeout_task) = self.timeout_task.lock().await.take()
\* { timeout_task.abort(); }
AbortOld ==
    /\ call.pc = "abort_old"
    /\ timeout_task' = None
    /\ tasks' = IF timeout_task = None THEN tasks ELSE abort(tasks, timeout_task[2])
    /\ call' = [call EXCEPT !.pc = "spawn"]
    /\ UNCHANGED <<key, timeout, store, builder, last, cleared, model_map, same_key>>
    /\ UNCHANGED outside_stronghold

\* set_password: tokio::spawn(async move {..}), the right-hand side of the
\* assignment
Spawn ==
    /\ call.pc = "spawn"
    /\ tasks' = Append(tasks, [pc |-> "sleep", aborted |-> FALSE])
    /\ call' = [call EXCEPT !.pc = "store_handle", !.task = Len(tasks) + 1]
    /\ UNCHANGED <<key, timeout, timeout_task, store, builder, last, cleared, model_map,
                   same_key>>
    /\ UNCHANGED outside_stronghold

\* set_password: *self.timeout_task.lock().await = Some(..), and the return
StoreHandle ==
    /\ call.pc = "store_handle"
    /\ timeout_task' = Some(call.task)
    /\ call' = Idle
    /\ last' = [NoOp EXCEPT !.op = "set_password", !.task = call.task,
                            !.raced = call.raced]
    /\ UNCHANGED <<key, timeout, tasks, store, builder, cleared, model_map, same_key>>
    /\ UNCHANGED outside_stronghold

\* mutant: the handle is taken and the task is left running
ClearKeyAbortForgets ==
    /\ call.pc = "idle"
    /\ timeout_task' = None
    /\ UNCHANGED tasks
    /\ call' = [Idle EXCEPT !.pc = "purge_key",
                            !.task = IF timeout_task = None THEN 0 ELSE timeout_task[2],
                            !.was = IF timeout_task = None THEN "none"
                                    ELSE tasks[timeout_task[2]].pc]
    /\ UNCHANGED <<key, timeout, store, builder, last, cleared, model_map, same_key>>
    /\ UNCHANGED outside_stronghold

\* clear_key: if let Some(timeout_task) = self.timeout_task.lock().await.take()
\* { timeout_task.abort(); }
ClearKeyAbort ==
    /\ call.pc = "idle"
    /\ timeout_task' = None
    /\ tasks' = IF timeout_task = None THEN tasks ELSE abort(tasks, timeout_task[2])
    /\ call' = [Idle EXCEPT !.pc = "purge_key",
                            !.task = IF timeout_task = None THEN 0 ELSE timeout_task[2],
                            !.was = IF timeout_task = None THEN "none"
                                    ELSE tasks[timeout_task[2]].pc]
    /\ UNCHANGED <<key, timeout, store, builder, last, cleared, model_map, same_key>>
    /\ UNCHANGED outside_stronghold

\* clear_key: if let Some(mut key) = self.key.lock().await.take()
\* { key.zeroize(); }, and the return
ClearKeyPurge ==
    /\ call.pc = "purge_key"
    /\ key' = None
    /\ call' = Idle
    /\ cleared' = [on |-> TRUE, task |-> call.task, was |-> call.was]
    /\ last' = [NoOp EXCEPT !.op = "clear_key", !.task = call.task]
    /\ UNCHANGED <<timeout, timeout_task, tasks, store, builder, model_map, same_key>>
    /\ UNCHANGED outside_stronghold

\* the task: tokio::time::sleep(timeout).await is over. The timeout is
\* longer than a call of a method, so it ends between two calls, and the
\* timers end in the order they were spawned in
TimerWakes(t) ==
    /\ call.pc = "idle"
    /\ tasks[t].pc = "sleep"
    /\ \A u \in 1..(t - 1) : tasks[u].pc # "sleep"
    /\ tasks' = [tasks EXCEPT ![t].pc = "purge"]
    /\ UNCHANGED <<key, timeout, timeout_task, store, call, builder, last, cleared,
                   model_map, same_key>>
    /\ UNCHANGED outside_stronghold

\* mutant: the task leaves the key where it is
TimerPurgesNothing(t) ==
    /\ tasks[t].pc = "purge"
    /\ tasks' = [tasks EXCEPT ![t].pc = "take_self"]
    /\ UNCHANGED <<key, timeout, timeout_task, store, call, builder, last, cleared,
                   model_map, same_key>>
    /\ UNCHANGED outside_stronghold

\* the task: if let Some(mut key) = key.lock().await.take() { key.zeroize(); }
\* (key.lock() waits while a snapshot method holds the lock of the key)
TimerPurges(t) ==
    /\ tasks[t].pc = "purge"
    /\ call.pc \notin {"read_snapshot", "write_snapshot"}
    /\ key' = None
    /\ tasks' = [tasks EXCEPT ![t].pc = "take_self"]
    /\ UNCHANGED <<timeout, timeout_task, store, call, builder, last, cleared,
                   model_map, same_key>>
    /\ UNCHANGED outside_stronghold

\* the task: task_self.lock().await.take(), and its end
TimerTakesSelf(t) ==
    /\ tasks[t].pc = "take_self"
    /\ timeout_task' = None
    /\ tasks' = [tasks EXCEPT ![t].pc = "finished"]
    /\ UNCHANGED <<key, timeout, store, call, builder, last, cleared, model_map, same_key>>
    /\ UNCHANGED outside_stronghold

\* the task was aborted while it ran, and an await of it yields
TimerCancelled(t) ==
    /\ tasks[t].pc \in {"purge", "take_self"}
    /\ tasks[t].aborted
    /\ tasks' = [tasks EXCEPT ![t].pc = "cancelled"]
    /\ UNCHANGED <<key, timeout, timeout_task, store, call, builder, last, cleared,
                   model_map, same_key>>
    /\ UNCHANGED outside_stronghold

\* DatabaseProvider::get
Get(k) ==
    /\ call.pc = "idle"
    /\ last' = [NoOp EXCEPT !.op = "get", !.k = k, !.ret = get(k)]
    /\ same_key' = Observe(same_key, key)
    /\ model_map' = Tracked(model_map, same_key')
    /\ UNCHANGED <<key, timeout, timeout_task, tasks, store, call, builder, cleared>>
    /\ UNCHANGED outside_stronghold

\* DatabaseProvider::insert: let old_value = self.get(k).await
InsertGet(k, v) ==
    /\ call.pc = "idle"
    /\ call' = [Idle EXCEPT !.pc = "insert_write", !.k = k, !.v = v,
                            !.old_value = get(k), !.keys = <<key>>]
    /\ same_key' = Observe(same_key, key)
    /\ model_map' = Tracked(model_map, same_key')
    /\ UNCHANGED <<key, timeout, timeout_task, tasks, store, builder, last, cleared>>
    /\ UNCHANGED outside_stronghold

\* DatabaseProvider::insert: from serde_json::to_vec(v) to the return
InsertWrite ==
    /\ call.pc = "insert_write"
    /\ IF key = None
       THEN /\ store' = store
            /\ last' = [NoOp EXCEPT !.op = "insert", !.k = call.k, !.ret = None]
       ELSE /\ store' = [store EXCEPT ![location_from_key(call.k)] =
                            Some(encrypt(to_vec(call.v), key[2])[2])]
            /\ last' = [NoOp EXCEPT !.op = "insert", !.k = call.k,
                                    !.ret = call.old_value]
    /\ same_key' = Observe(same_key, key)
    /\ model_map' = Tracked([model_map EXCEPT ![call.k] = Some(call.v)], same_key')
    /\ call' = Idle
    /\ UNCHANGED <<key, timeout, timeout_task, tasks, builder, cleared>>
    /\ UNCHANGED outside_stronghold

\* mutant: delete returns the value and leaves the record in the store
DeleteKeepsRecord(k) ==
    /\ call.pc = "idle"
    /\ store' = store
    /\ last' = [NoOp EXCEPT !.op = "delete", !.k = k, !.ret = get(k)]
    /\ same_key' = Observe(same_key, key)
    /\ model_map' = Tracked([model_map EXCEPT ![k] = None], same_key')
    /\ UNCHANGED <<key, timeout, timeout_task, tasks, call, builder, cleared>>
    /\ UNCHANGED outside_stronghold

\* DatabaseProvider::delete
Delete(k) ==
    /\ call.pc = "idle"
    /\ store' = [store EXCEPT ![location_from_key(k)] = None]
    /\ last' = [NoOp EXCEPT !.op = "delete", !.k = k, !.ret = get(k)]
    /\ same_key' = Observe(same_key, key)
    /\ model_map' = Tracked([model_map EXCEPT ![k] = None], same_key')
    /\ UNCHANGED <<key, timeout, timeout_task, tasks, call, builder, cleared>>
    /\ UNCHANGED outside_stronghold

NextStronghold ==
    \/ Build
    \/ SetPassword
    \/ AbortOld
    \/ Spawn
    \/ StoreHandle
    \/ ClearKeyAbort
    \/ ClearKeyPurge
    \/ \E t \in 1..Len(tasks) : TimerWakes(t)
    \/ \E t \in 1..Len(tasks) : TimerPurges(t)
    \/ \E t \in 1..Len(tasks) : TimerTakesSelf(t)
    \/ \E t \in 1..Len(tasks) : TimerCancelled(t)

SpecStronghold == InitStronghold /\ [][NextStronghold]_vars

\* the database is used by a client that spawns fewer than MaxTasks timers
FewTimers == Len(tasks) < MaxTasks

NextStrongholdDb ==
    \/ NextStronghold /\ FewTimers'
    \/ \E k \in RecordKeys : Get(k)
    \/ \E k \in RecordKeys, v \in Values : InsertGet(k, v)
    \/ InsertWrite
    \/ \E k \in RecordKeys : Delete(k)

SpecStrongholdDb == InitStronghold /\ [][NextStrongholdDb]_vars

Built == call.pc # "unbuilt"


(***************************************************************************)
(* Properties of the key and its timer (SpecStronghold).                   *)
(***************************************************************************)
\* the client was built with a timeout and no password
BuiltWithTimeoutOnly ==
    /\ Built
    /\ builder[2].timeout
    /\ builder[2].password = 0

C28_KeyUnderATimeoutHasATimer ==
    (timeout /\ call.pc = "idle" /\ key # None) =>
        \E t \in 1..Len(tasks) : tasks[t].pc \in {"sleep", "purge"}


\* a database method has returned in this step
DbReturned(op) == last' # last /\ last'.op = op

\* the database methods have all run under the key the client holds now
UnderOneKey == same_key.ok /\ (same_key.key = None \/ key = same_key.key)

C30_NoKeyNoDatabaseEffect ==
    [][key = None =>
        /\ store' = store
        /\ \A op \in {"get", "insert", "delete"} :
               DbReturned(op) => last'.ret = None]_vars


\* ---------------------------------------------------------------------
\* StrongholdClient: the snapshot (src/src/stronghold/mod.rs)
\* ---------------------------------------------------------------------

MaxReads == 2
Paths == {1, 2}

SnapshotOk == <<"Ok", "">>
StrongholdKeyCleared == <<"Err", "StrongholdKeyCleared">>
StrongholdSnapshotPathMissing == <<"Err", "StrongholdSnapshotPathMissing">>
StrongholdProcedureError == <<"Err", "StrongholdProcedureError">>

\* what a snapshot method sees when it is called
Entry == <<key, snapshot_path, snapshot_loaded>>

\* mutant: the snapshot path is looked at before the key
snapshot_checks_path_first ==
    IF snapshot_path = None THEN StrongholdSnapshotPathMissing
    ELSE IF key = None THEN StrongholdKeyCleared
    ELSE SnapshotOk

\* both snapshot methods: "The key and the snapshot path need to be
\* supplied first", the key is looked at first
snapshot_checks ==
    IF key = None THEN StrongholdKeyCleared
    ELSE IF snapshot_path = None THEN StrongholdSnapshotPathMissing
    ELSE SnapshotOk

\* StrongholdClientBuilder::snapshot_path
BuilderSnapshotPath ==
    /\ call.pc = "unbuilt"
    /\ snapshot_path = None
    /\ \E path \in Paths : snapshot_path' = Some(path)
    /\ UNCHANGED <<snapshot_loaded, snapshot_reads>>
    /\ UNCHANGED stronghold_vars
    /\ UNCHANGED outside_client

\* set_snapshot_path
SetSnapshotPath ==
    /\ call.pc = "idle"
    /\ \E path \in Paths : snapshot_path' = Some(path)
    /\ last' = [NoOp EXCEPT !.op = "set_snapshot_path"]
    /\ UNCHANGED <<snapshot_loaded, snapshot_reads>>
    /\ UNCHANGED <<key, timeout, timeout_task, tasks, store, call, builder, cleared,
                   model_map, same_key>>
    /\ UNCHANGED outside_client

\* mutant: read_stronghold_snapshot without the check of snapshot_loaded
ReadSnapshotBeginAlways ==
    /\ call.pc = "idle"
    /\ IF snapshot_checks # SnapshotOk
       THEN /\ last' = [NoOp EXCEPT !.op = "read_stronghold_snapshot",
                                    !.ret = snapshot_checks]
            /\ call' = call
       ELSE /\ Len(snapshot_reads) < MaxReads
            /\ call' = [Idle EXCEPT !.pc = "read_snapshot", !.keys = Entry]
            /\ last' = last
    /\ UNCHANGED snapshot_vars
    /\ UNCHANGED <<key, timeout, timeout_task, tasks, store, builder, cleared,
                   model_map, same_key>>
    /\ UNCHANGED outside_client

\* read_stronghold_snapshot, up to the call of Stronghold::read_snapshot;
\* the lock of the key is held from here to the return
ReadSnapshotBegin ==
    /\ call.pc = "idle"
    /\ IF snapshot_loaded
       THEN /\ last' = [NoOp EXCEPT !.op = "read_stronghold_snapshot",
                                    !.ret = SnapshotOk]
            /\ call' = call
       ELSE IF snapshot_checks # SnapshotOk
       THEN /\ last' = [NoOp EXCEPT !.op = "read_stronghold_snapshot",
                                    !.ret = snapshot_checks]
            /\ call' = call
       ELSE /\ Len(snapshot_reads) < MaxReads
            /\ call' = [Idle EXCEPT !.pc = "read_snapshot", !.keys = Entry]
            /\ last' = last
    /\ UNCHANGED snapshot_vars
    /\ UNCHANGED <<key, timeout, timeout_task, tasks, store, builder, cleared,
                   model_map, same_key>>
    /\ UNCHANGED outside_client

\* read_stronghold_snapshot, from the answer of Stronghold::read_snapshot
\* to the return (what the snapshot holds is not followed: no database
\* method runs beside the snapshot methods)
ReadSnapshotEnd ==
    /\ call.pc = "read_snapshot"
    /\ \E status \in {"Ok", "Error"} :
           IF status = "Ok"
           THEN /\ snapshot_loaded' = TRUE
                /\ snapshot_reads' = Append(snapshot_reads, snapshot_path[2])
                /\ last' = [NoOp EXCEPT !.op = "read_stronghold_snapshot",
                                        !.ret = SnapshotOk, !.read = TRUE]
           ELSE /\ UNCHANGED <<snapshot_loaded, snapshot_reads>>
                /\ last' = [NoOp EXCEPT !.op = "read_stronghold_snapshot",
                                        !.ret = StrongholdProcedureError, !.read = TRUE]
    /\ call' = Idle
    /\ UNCHANGED snapshot_path
    /\ UNCHANGED <<key, timeout, timeout_task, tasks, store, builder, cleared,
                   model_map, same_key>>
    /\ UNCHANGED outside_client

\* write_stronghold_snapshot, up to Stronghold::write_all_to_snapshot
WriteSnapshotBegin ==
    /\ call.pc = "idle"
    /\ IF snapshot_checks # SnapshotOk
       THEN /\ last' = [NoOp EXCEPT !.op = "write_stronghold_snapshot",
                                    !.ret = snapshot_checks]
            /\ call' = call
       ELSE /\ call' = [Idle EXCEPT !.pc = "write_snapshot", !.keys = Entry]
            /\ last' = last
    /\ UNCHANGED snapshot_vars
    /\ UNCHANGED <<key, timeout, timeout_task, tasks, store, builder, cleared,
                   model_map, same_key>>
    /\ UNCHANGED outside_client

\* write_stronghold_snapshot, from Stronghold's answer to the return
WriteSnapshotEnd ==
    /\ call.pc = "write_snapshot"
    /\ \E status \in {"Ok", "Error"} :
           last' = [NoOp EXCEPT !.op = "write_stronghold_snapshot",
                                !.ret = IF status = "Ok" THEN SnapshotOk
                                        ELSE StrongholdProcedureError,
                                !.read = TRUE]
    /\ call' = Idle
    /\ UNCHANGED snapshot_vars
    /\ UNCHANGED <<key, timeout, timeout_task, tasks, store, builder, cleared,
                   model_map, same_key>>
    /\ UNCHANGED outside_client

NextStrongholdSnapshot ==
    \/ NextStronghold /\ FewTimers'
    \/ BuilderSnapshotPath
    \/ SetSnapshotPath
    \/ ReadSnapshotBegin
    \/ ReadSnapshotEnd
    \/ WriteSnapshotBegin
    \/ WriteSnapshotEnd

SpecStrongholdSnapshot == InitStronghold /\ [][NextStrongholdSnapshot]_vars

\* a snapshot method returns in this step
SnapshotReturned(op, at) ==
    /\ last'.op = op
    /\ \/ call.pc = at
       \/ call.pc = "idle" /\ call' = call /\ tasks' = tasks /\ ~last'.read

\* C31: the loaded flag becomes true only in the step in which
\* Stronghold::read_snapshot has answered Ok; once it is true it stays
\* true, no call reaches Stronghold::read_snapshot again, nothing more is
\* read, and every read_stronghold_snapshot returns Ok; so the snapshot is
\* read with success at most once.
C31_SnapshotIsLoadedAtMostOnce ==
    [][/\ (snapshot_loaded' /\ ~snapshot_loaded) =>
              /\ call.pc = "read_snapshot"
              /\ last'.ret = SnapshotOk
              /\ Len(snapshot_reads') = Len(snapshot_reads) + 1
       /\ snapshot_loaded =>
              /\ snapshot_loaded'
              /\ call'.pc # "read_snapshot"
              /\ snapshot_reads' = snapshot_reads
              /\ SnapshotReturned("read_stronghold_snapshot", "read_snapshot") =>
                     last'.ret = SnapshotOk
       /\ Len(snapshot_reads') <= 1]_vars

\* C31 witness: the snapshot is loaded, and a later call has returned Ok
\* without reading, with the key cleared and another path set.
C31_Witness ==
    /\ snapshot_loaded
    /\ last.op = "read_stronghold_snapshot"
    /\ ~last.read
    /\ last.ret = SnapshotOk
    /\ key = None
    /\ snapshot_path # Some(snapshot_reads[1])


\* what the snapshot method that returns in this step saw when it was called
EntryOfCall == IF call.pc = "idle" THEN Entry ELSE call.keys

\* the method that returns in this step was called with these checks due
ChecksDue(op) == op = "write_stronghold_snapshot" \/ ~EntryOfCall[3]

\* C32: a snapshot method whose checks are due (write_stronghold_snapshot,
\* or read_stronghold_snapshot with nothing loaded) returns
\* StrongholdKeyCleared when it was called without a key, with or without
\* a path, and StrongholdSnapshotPathMissing when it was called with a key
\* and without a path; and when either method returns an error, the key,
\* the path and the loaded flag are what they were when it was called.
C32_SnapshotErrorsInOrderAndWithoutEffect ==
    [][\A m \in {<<"read_stronghold_snapshot", "read_snapshot">>,
                 <<"write_stronghold_snapshot", "write_snapshot">>} :
           SnapshotReturned(m[1], m[2]) =>
               /\ (ChecksDue(m[1]) /\ EntryOfCall[1] = None) =>
                      last'.ret = StrongholdKeyCleared
               /\ (ChecksDue(m[1]) /\ EntryOfCall[1] # None /\ EntryOfCall[2] = None) =>
                      last'.ret = StrongholdSnapshotPathMissing
               /\ last'.ret[1] = "Err" => Entry' = EntryOfCall]_vars

\* C32 witness: Stronghold has failed to read the snapshot while a timer's
\* sleep was over, and the key is still there.
C32_Witness ==
    /\ last.op = "read_stronghold_snapshot"
    /\ last.ret = StrongholdProcedureError
    /\ call.pc = "idle"
    /\ key # None
    /\ ~snapshot_loaded
    /\ \E t \in 1..Len(tasks) : tasks[t].pc = "purge"


\* C33: from the return of set_password, as long as no other call is made
\* and the timeout of that call has not elapsed (the timer it spawned is
\* still asleep), the key is present, whatever an earlier timer does.
C33_EarlierTimerNeverClearsALaterKey ==
    (/\ last.op = "set_password"
     /\ call.pc = "idle"
     /\ timeout => tasks[last.task].pc = "sleep") =>
        key # None

\* C34: between two calls, a key clearing timer that is still to run is
\* the one whose handle is stored in timeout_task; so there is at most one.
C34_LiveTimerIsTheStoredOne ==
    call.pc = "idle" =>
        \A t \in 1..Len(tasks) :
            tasks[t].pc = "sleep" => timeout_task = Some(t)


\* C35: after a successful call of the matcher, the Collector run again on
\* the final selection, with the same outputs and time, requires nothing.
C35_CollectorIsEmptyAfterSuccess ==
    Succeeded =>
        get_required_addresses_for_sender_and_issuer(
            selected_inputs, outputs, current_time) = {}


(***************************************************************************)
(* select_inputs_for_sender_and_issuer, called twice by one caller.        *)
(***************************************************************************)

\* what the call that has returned leaves for the comparison
FirstMatch(kind) ==
    [kind |-> kind, result |-> result, selected_inputs |-> selected_inputs,
     selected_inputs_output_ids |-> selected_inputs_output_ids, visited |-> visited,
     pushed |-> pushed]

\* the caller calls again after a success, with the same pool, outputs and
\* time, on the selection and the dedup set the first call has left
MatcherAgain ==
    /\ pc = "returned"
    /\ result = Ok
    /\ first_match = NoFirstMatch
    /\ first_match' = FirstMatch("again")
    /\ pc' = "idle"
    /\ result' = Running
    /\ required_addresses' = {}
    /\ entry_required_addresses' = {}
    /\ entry_selected_inputs' = selected_inputs
    /\ visited' = <<>>
    /\ pushed' = <<>>
    /\ UNCHANGED <<outputs, inputs, selected_inputs, selected_inputs_output_ids,
                   current_time>>
    /\ UNCHANGED <<utxo_chain_inputs, secret_manager, required_inputs, utxo_chains,
                   expand_pos, requests, steps, returned, first_call>>
    /\ UNCHANGED outside_selection

\* the same call is made once more from the state the first call was made
\* in; the HashSet of the required addresses may be iterated in another order
MatcherOtherOrder ==
    /\ pc = "returned"
    /\ first_match = NoFirstMatch
    /\ first_match' = FirstMatch("other_order")
    /\ pc' = "idle"
    /\ result' = Running
    /\ required_addresses' = {}
    /\ entry_required_addresses' = {}
    /\ selected_inputs' = entry_selected_inputs
    /\ selected_inputs_output_ids' = OutputIdsOf(entry_selected_inputs)
    /\ visited' = <<>>
    /\ pushed' = <<>>
    /\ UNCHANGED <<outputs, inputs, current_time, entry_selected_inputs>>
    /\ UNCHANGED <<utxo_chain_inputs, secret_manager, required_inputs, utxo_chains,
                   expand_pos, requests, steps, returned, first_call>>
    /\ UNCHANGED outside_selection

NextMatcherTwice ==
    \/ Next
    \/ MatcherAgain
    \/ MatcherOtherOrder

\* the new outputs of the two calls, in one order
MatcherTwiceOutputs ==
    <<  BasicOutput(Ed25519(1), NoExpiration, Ed25519(1)),
        BasicOutput(Ed25519(1), NoExpiration, AliasAddress(1)),
        AliasOutput(1, 0, Ed25519(1), Ed25519(1), Ed25519(2), NoAddress),
        AliasOutput(1, 1, Ed25519(1), Ed25519(1), NoAddress, NoAddress),
        AliasOutput(NullId, 0, Ed25519(1), Ed25519(1),
                    NftAddress(IdFromOutputId(4)), Ed25519(2))
    >>

\* the arguments of the two calls: the outputs of the matcher in one order
\* (the required set is a set), a pool that holds no input twice, and any
\* selection and time
InitMatcherTwice ==
    /\ \E picked \in {s \in SeqUpTo(1..Len(MatcherTwiceOutputs), MaxOutputs) :
                          \A i \in 1..(Len(s) - 1) : s[i] < s[i + 1]} :
           outputs = [i \in 1..Len(picked) |-> MatcherTwiceOutputs[picked[i]]]
    /\ inputs \in InjSeqUpTo(WalletOutputIds, MaxPool)
    /\ selected_inputs \in InjSeqUpTo(WalletOutputIds, MaxSelected)
    /\ utxo_chain_inputs = <<>>
    /\ secret_manager = FALSE
    /\ NotCalled

SpecMatcherTwice == InitMatcherTwice /\ [][NextMatcherTwice]_vars

\* C36: a second call on what a successful first call has left returns
\* success, appends nothing, and leaves the selection and the dedup set as
\* the first call left them.
C36_SecondCallAppendsNothing ==
    (first_match.kind = "again" /\ Called) =>
        /\ selected_inputs = first_match.selected_inputs
        /\ selected_inputs_output_ids = first_match.selected_inputs_output_ids
        /\ pushed = <<>>
        /\ Returned => result = Ok

\* C36 witness: the first call has pushed an input, and the second call
\* has returned after visiting a required address.
C36_Witness ==
    /\ first_match.kind = "again"
    /\ Succeeded
    /\ first_match.pushed # <<>>
    /\ visited # <<>>

\* C37: two calls with the same pool, outputs, time and initial selection
\* both succeed or both fail, whatever the orders in which they visit the
\* required addresses, and when they succeed they leave the same set of
\* selected OutputIds.
C37_OrderDoesNotChangeTheSelection ==
    (first_match.kind = "other_order" /\ Returned) =>
        /\ (result = Ok) = (first_match.result = Ok)
        /\ result = Ok =>
               OutputIdsOf(selected_inputs) = OutputIdsOf(first_match.selected_inputs)


\* C38: no step of the matcher changes the new outputs or the candidate
\* pool, and the step that visits a required address which an already
\* selected input matches leaves the selection and the dedup set as they
\* are, whatever the pool holds.
C38_MatcherWritesOnlyTheSelection ==
    [][/\ outputs' = outputs
       /\ inputs' = inputs
       /\ \A a \in required_addresses :
              (/\ visited' = Append(visited, a)
               /\ FoundInSelected(selected_inputs, outputs, current_time, a)) =>
                  /\ selected_inputs' = selected_inputs
                  /\ selected_inputs_output_ids' = selected_inputs_output_ids]_vars

\* C38 witness: a call has succeeded without pushing anything, for an
\* address that an unselected input of the pool matches too.
C38_Witness ==
    /\ Succeeded
    /\ visited # <<>>
    /\ pushed = <<>>
    /\ selected_inputs = entry_selected_inputs
    /\ PoolMatches(inputs, selected_inputs_output_ids, outputs, current_time,
                   visited[1]) # {}

(***************************************************************************)
(* Termination and the number of requests of the resolver.  Every step of  *)
(* NextResolver is a stretch of the call between two awaits; a request the  *)
(* collaborator answers lets the call go on, so the steps are weakly fair.  *)
(***************************************************************************)
\* the senders and issuers of ResolverOutputs, in one order
ResolverOutputsInOrder ==
    <<  BasicOutput(Ed25519(1), NoExpiration, Ed25519(1)),
        BasicOutput(Ed25519(1), NoExpiration, Ed25519(3)),
        BasicOutput(Ed25519(1), NoExpiration, AliasAddress(1)),
        BasicOutput(Ed25519(1), NoExpiration, AliasAddress(IdFromOutputId(5))),
        BasicOutput(Ed25519(1), NoExpiration, AliasAddress(3)),
        BasicOutput(Ed25519(1), NoExpiration, NftAddress(IdFromOutputId(4))),
        BasicOutput(Ed25519(1), NoExpiration, NftAddress(2)),
        AliasOutput(NullId, 0, Ed25519(1), Ed25519(1), NoAddress, Ed25519(2))
    >>

\* a call of the resolver: the required set is a set, so one order of the
\* outputs stands for all of them
InitResolverFair ==
    /\ \E picked \in {s \in SeqUpTo(1..Len(ResolverOutputsInOrder), MaxOutputs) :
                          \A i \in 1..(Len(s) - 1) : s[i] < s[i + 1]} :
           outputs = [i \in 1..Len(picked) |-> ResolverOutputsInOrder[picked[i]]]
    /\ inputs = <<>>
    /\ selected_inputs = <<>>
    /\ utxo_chain_inputs \in InjSeqUpTo(KnownChainOutputIds, MaxKnown)
    /\ secret_manager \in BOOLEAN
    /\ NotCalled

SpecResolverFair == InitResolverFair /\ [][NextResolver]_vars /\ WF_vars(NextResolver)

\* how many requests of a log carry one of the names
RequestCount(log, names) == Cardinality({i \in 1..Len(log) : log[i].name \in names})

\* the most requests the loop may issue for one required address
RequestBound(address) == IF address[1] = "Ed25519" THEN 2 ELSE 3

RECURSIVE RequestBoundOf(_)
\* the most requests the loop may issue for a set of required addresses
RequestBoundOf(addresses) ==
    IF addresses = {} THEN 0
    ELSE LET a == CHOOSE x \in addresses : TRUE
         IN  RequestBound(a) + RequestBoundOf(addresses \ {a})

RECURSIVE LoopRequestCountUpTo(_)
\* the requests the first k iterations of the loop have issued
LoopRequestCountUpTo(k) ==
    IF k = 0 THEN 0 ELSE Len(steps[k].requests) + LoopRequestCountUpTo(k - 1)

\* the requests the iterations of the loop have issued
LoopRequestCount == LoopRequestCountUpTo(Len(steps))

\* the call is in the loop or has left it from the loop: the chain
\* expansion has not been entered
BeforeExpansion ==
    \/ pc = "resolve" /\ expand_pos = 1
    \/ pc = "returned" /\ required_addresses # {}

\* the requests of the iteration for one address are within what the claim
\* allows for the kind of the address
WithinRequestBound(step) ==
    IF step.address[1] = "Ed25519"
    THEN /\ RequestCount(step.requests, {"search_address"}) <= 1
         /\ RequestCount(step.requests, {"basic_address_outputs"}) <= 1
         /\ \A i \in 1..Len(step.requests) :
                step.requests[i].name \in {"search_address", "basic_address_outputs"}
    ELSE /\ RequestCount(step.requests, {OutputIdRequest(step.address[1])}) <= 1
         /\ RequestCount(step.requests, {"get_output"}) <= 1
         /\ RequestCount(step.requests, {"search_address"}) <= 1
         /\ \A i \in 1..Len(step.requests) :
                step.requests[i].name \in
                    {OutputIdRequest(step.address[1]), "get_output", "search_address"}

RequestsAreBounded ==
    /\ \A k \in 1..Len(steps) :
           /\ steps[k].address \in entry_required_addresses
           /\ WithinRequestBound(steps[k])
           /\ \A j \in 1..Len(steps) : steps[j].address = steps[k].address => j = k
    /\ BeforeExpansion =>
           /\ Len(requests) = Len(ProtocolRequests) + LoopRequestCount
           /\ LoopRequestCount <= RequestBoundOf(entry_required_addresses)

\* C39: when every request is answered the call of the resolver returns;
\* and the loop runs once for an address of the required set, with at most
\* one search_address and one basic_address_outputs request for an Ed25519
\* address, and at most one output id lookup, one get_output and one
\* search_address request for an alias or nft address, so that up to the
\* chain expansion the call has issued, after its three requests for the
\* protocol parameters, no more than two requests for every required
\* Ed25519 address and three for every required alias or nft address.
C39_ResolverTerminatesWithBoundedRequests ==
    /\ []RequestsAreBounded
    /\ <>(pc = "returned")

\* C39 witness: a call has returned after the loop has run for an Ed25519
\* address with both of its requests and for an alias or nft address with
\* all three of its requests.
C39_Witness ==
    /\ pc = "returned"
    /\ \E k \in 1..Len(steps) :
           steps[k].address[1] = "Ed25519" /\ Len(steps[k].requests) = 2
    /\ \E k \in 1..Len(steps) :
           steps[k].address[1] # "Ed25519" /\ Len(steps[k].requests) = 3
=============================================================================
